---- MODULE Spec2Model ----
(***************************************************************************)
(* Route / mission optimization engine of the transport-management module. *)
(*                                                                         *)
(* Units.  Coordinates are integers in tenths of a degree; 0 is the value  *)
(* the code treats as "no coordinate".  Distances are integer metres       *)
(* (distance_km * 1000) and durations integer seconds (duration_hours *    *)
(* 3600), so that the float arithmetic of the code becomes integer         *)
(* arithmetic.  An identifier of 0 stands for a missing (falsy) id.        *)
(***************************************************************************)
EXTENDS Integers, Sequences, FiniteSets, TLC

VARIABLES
    \* ---- Route Sequencer (nearest neighbour + 2-opt) ----
    sources,            \* the sources handed to the route builders
    destinations,       \* the destinations handed to _nearest_neighbor_tsp
    distance_matrix,    \* "i-j" -> [distance_m, duration_s, is_osrm]
    nn,                 \* loop state of _nearest_neighbor_tsp
    opt,                \* loop state of _two_opt_improvement
    seqPc,              \* position of the sequencer
    seqOut,             \* the sequence returned by the sequencer
    \* ---- Distance Matrix Builder ----
    osrm,               \* the answer of the road-routing service
    matPc,              \* position of _calculate_distance_matrix
    \* ---- Cargo-Aware Route Splitter ----
    vehicles,           \* the fleet: records with max_payload and cargo_volume
    strategy,           \* the strategy _determine_routing_strategy chose
    routes,             \* the routes returned by _create_optimized_routes
    splitPc,            \* position of the splitter
    \* ---- Generative-AI optimization ----
    aiEntry,            \* the entry point called: "service" or "wizard"
    aiIn,               \* its input: what bulk_location_data holds, and the API key
    aiPc,               \* position of the call
    aiAttempts,         \* the answers to the requests sent so far
    aiClient,           \* what the AI client gave back to the entry point
    aiResult,           \* what the entry point gave back to its caller
    \* ---- Cost model ----
    costIn,             \* distance, duration, vehicle consumption, parameters
    costOut,            \* the cost breakdown returned
    costPc,             \* which cost function has returned
    \* ---- Mission Assembler ----
    assignIn,           \* the routes, vehicles and drivers handed to the assembler
    assign,             \* loop state of _assign_vehicles_and_drivers
    assignPc,           \* position of the assembler
    \* ---- Route cache (transport.route.cache) ----
    route_cache,        \* the rows of the table, in the order of their creation
    computations,       \* the running _compute_total_distance calls, one per mission
    cacheLog,           \* the calls of cache_route that have ended, in order
    \* ---- Mission type summary ----
    mission,            \* the destinations' types and the three computed fields
    summaryPc           \* "stale" after a change, "computed" after the compute

seqVars == <<sources, destinations, distance_matrix, nn, opt, seqPc, seqOut>>

matVars == <<osrm, matPc>>

splitVars == <<vehicles, strategy, routes, splitPc>>

aiVars == <<aiEntry, aiIn, aiPc, aiAttempts, aiClient, aiResult>>

costVars == <<costIn, costOut, costPc>>

assignVars == <<assignIn, assign, assignPc>>

cacheVars == <<route_cache, computations, cacheLog>>

summaryVars == <<mission, summaryPc>>

vars == <<seqVars, matVars, splitVars, aiVars, costVars, assignVars, cacheVars, summaryVars>>

nonSeqVars == <<matVars, splitVars, aiVars, costVars, assignVars, cacheVars, summaryVars>>

nonMatVars == <<nn, opt, seqPc, seqOut, splitVars, aiVars, costVars, assignVars, cacheVars, summaryVars>>

nonSplitVars == <<nn, opt, seqPc, seqOut, matVars, aiVars, costVars, assignVars, cacheVars, summaryVars>>

nonAiVars == <<seqVars, matVars, splitVars, costVars, assignVars, cacheVars, summaryVars>>

nonCostVars == <<seqVars, matVars, splitVars, aiVars, assignVars, cacheVars, summaryVars>>

nonAssignVars == <<seqVars, matVars, splitVars, aiVars, costVars, cacheVars, summaryVars>>

nonCacheVars == <<seqVars, matVars, splitVars, aiVars, costVars, assignVars, summaryVars>>

nonSummaryVars == <<seqVars, matVars, splitVars, aiVars, costVars, assignVars, cacheVars>>

-----------------------------------------------------------------------------
(* Bounds of the model *)

MaxDest == 4

MaxMatrixDest == 3

MaxSplitDest == 4

-----------------------------------------------------------------------------
(* Generic helpers *)

Abs(x) == IF x < 0 THEN 0 - x ELSE x

Range(s) == {s[i] : i \in DOMAIN s}

SeqsUpTo(S, n) == UNION {[1..k -> S] : k \in 0..n}

CountOf(x, s) == Cardinality({i \in DOMAIN s : s[i] = x})

\* same multiset of elements
IsPermutation(a, b) ==
    /\ Len(a) = Len(b)
    /\ \A x \in Range(a) \cup Range(b) : CountOf(x, a) = CountOf(x, b)

RemoveAt(s, k) == SubSeq(s, 1, k - 1) \o SubSeq(s, k + 1, Len(s))

\* list.index(x): 1-based position of the first element equal to x
IndexOf(s, x) == CHOOSE i \in DOMAIN s : s[i] = x /\ \A j \in 1..(i - 1) : s[j] # x

RECURSIVE ISqrtIn(_, _, _)
ISqrtIn(n, lo, hi) ==
    IF lo >= hi THEN lo
    ELSE LET mid == (lo + hi + 1) \div 2
         IN  IF mid * mid <= n THEN ISqrtIn(n, mid, hi) ELSE ISqrtIn(n, lo, mid - 1)

\* integer square root (the search stays below the 32-bit product limit)
ISqrt(n) == ISqrtIn(n, 0, IF n > 40000 THEN 40000 ELSE n)

-----------------------------------------------------------------------------
(* Points *)

Dest(id, name, lat, lng, w, v) ==
    [id |-> id, name |-> name, latitude |-> lat, longitude |-> lng,
     total_weight |-> w, total_volume |-> v]

Src(id, name, lat, lng) ==
    [id |-> id, name |-> name, latitude |-> lat, longitude |-> lng,
     total_weight |-> 0, total_volume |-> 0]

\* Destinations the inputs are drawn from: three with their own ids on the
\* corners of a square, one that shares the id of the first, and one without
\* an id that is listed twice.
DestPool ==
    << Dest(1, "A", 10, 20, 500, 2), Dest(2, "B", 20, 20, 500, 2),
       Dest(3, "C", 20, 10, 500, 2), Dest(1, "A2", 25, 12, 300, 1),
       Dest(0, "X", 13, 14, 700, 3), Dest(0, "X", 13, 14, 700, 3) >>

\* the lists of at most n entries of the pool, in any order
DestinationLists(n) ==
    UNION {{[i \in 1..k |-> DestPool[f[i]]] :
               f \in {g \in [1..k -> DOMAIN DestPool] :
                          \A a, b \in 1..k : a # b => g[a] # g[b]}} : k \in 0..n}

SourceLists ==
    { <<Src(101, "S1", 10, 10)>>, <<Src(101, "S1", 10, 10), Src(102, "S2", 22, 18)>> }

-----------------------------------------------------------------------------
(* Geodistance primitive and the Haversine-only matrix *)

\* _haversine_distance, in metres.  The great-circle formula is replaced by
\* its flat small-angle form (111.2 km per degree) in integer arithmetic.
HaversineDistance(lat1, lon1, lat2, lon2) ==
    LET dlat == lat2 - lat1
        dlon == lon2 - lon1
    IN  (ISqrt((dlat * dlat + dlon * dlon) * 10000) * 1112) \div 10

Keys(n) == {k \in (0..(n - 1)) \X (0..(n - 1)) : k[1] # k[2]}

FallbackEntry(p1, p2) ==
    LET distance_m == HaversineDistance(p1.latitude, p1.longitude, p2.latitude, p2.longitude)
    IN  [distance_m |-> distance_m, duration_s |-> (distance_m * 72) \div 1000, is_osrm |-> FALSE]

\* _fallback_distance_matrix: every ordered pair i # j of sources + destinations
FallbackDistanceMatrix(srcs, dests) ==
    LET all_points == srcs \o dests
    IN  [k \in Keys(Len(all_points)) |->
            FallbackEntry(all_points[k[1] + 1], all_points[k[2] + 1])]

-----------------------------------------------------------------------------
(* Distance Matrix Builder: _calculate_distance_matrix *)

\* a null cell of the service's tables
Null == 0 - 1

\* `if lat and lng`
HasCoordinates(point) == point.latitude # 0 /\ point.longitude # 0

\* valid_points: the 0-based indices of the points that have coordinates
ValidPoints(all_points) ==
    SelectSeq([i \in 1..Len(all_points) |-> i - 1],
              LAMBDA i : HasCoordinates(all_points[i + 1]))

\* cells of the tables read with the loop's own indices i, j (0-based);
\* Absent when the table has no such row or column
Absent == 0 - 2

Cell(table, i, j) ==
    IF i < Len(table) /\ j < Len(table[i + 1]) THEN table[i + 1][j + 1] ELSE Absent

\* `i < len(distances) and j < len(distances[i]) and distances[i][j] is not None`
UsesOsrm(resp, i, j) ==
    LET c == Cell(resp.distances, i, j) IN c # Absent /\ c # Null

\* durations[i][j] if it exists, else 0
DurationCell(resp, i, j) ==
    LET c == Cell(resp.durations, i, j) IN IF c = Absent THEN 0 ELSE c

\* duration_s / 3600 raises TypeError on a null duration
BuildRaises(resp, n) ==
    \E k \in Keys(n) : UsesOsrm(resp, k[1], k[2]) /\ DurationCell(resp, k[1], k[2]) = Null

\* the double loop over all_points on an 'Ok' answer
OsrmMatrix(all_points, resp) ==
    [k \in Keys(Len(all_points)) |->
        IF UsesOsrm(resp, k[1], k[2])
        THEN [distance_m |-> Cell(resp.distances, k[1], k[2]),
              duration_s |-> DurationCell(resp, k[1], k[2]),
              is_osrm |-> TRUE]
        ELSE FallbackEntry(all_points[k[1] + 1], all_points[k[2] + 1])]

\* the answer is used: status 200, code 'Ok', and the loop does not raise
\* (Unguarded: the same without the try block around the loop)
OsrmUsableUnguarded(all_points, resp) == resp.kind = "ok"

OsrmUsable(all_points, resp) ==
    resp.kind = "ok" /\ ~BuildRaises(resp, Len(all_points))

\* what _calculate_distance_matrix returns for the answer resp
\* (Partial: the same without the else branch that fills a missing pair)
CalculateDistanceMatrixPartial(srcs, dests, resp) ==
    LET all_points == srcs \o dests
    IN  IF Len(ValidPoints(all_points)) < 2 THEN FallbackDistanceMatrix(srcs, dests)
        ELSE IF OsrmUsable(all_points, resp)
        THEN [k \in {x \in Keys(Len(all_points)) : UsesOsrm(resp, x[1], x[2])} |->
                 OsrmMatrix(all_points, resp)[k]]
        ELSE FallbackDistanceMatrix(srcs, dests)

CalculateDistanceMatrix(srcs, dests, resp) ==
    LET all_points == srcs \o dests
    IN  IF Len(ValidPoints(all_points)) < 2 THEN FallbackDistanceMatrix(srcs, dests)
        ELSE IF OsrmUsable(all_points, resp) THEN OsrmMatrix(all_points, resp)
        ELSE FallbackDistanceMatrix(srcs, dests)

(* The road-routing service.  Its table is indexed by the position of a point
   in the request, which lists the valid points only. *)

RoadDistance(p1, p2) ==
    (HaversineDistance(p1.latitude, p1.longitude, p2.latitude, p2.longitude) * 13) \div 10

RoadDuration(p1, p2) == RoadDistance(p1, p2) \div 14

\* a table of rows x cols cells for the requested points, null on `nulls`
OsrmTable(all_points, rows, cols, nulls, annotation) ==
    LET vp == ValidPoints(all_points)
    IN  [a \in 1..rows |-> [b \in 1..cols |->
            IF <<a, b>> \in nulls THEN Null
            ELSE IF annotation = "distance"
                 THEN RoadDistance(all_points[vp[a] + 1], all_points[vp[b] + 1])
                 ELSE RoadDuration(all_points[vp[a] + 1], all_points[vp[b] + 1])]]

Sizes(n) == {0, n - 1, n}

NullSets(n) == {{}, {<<1, 2>>}, {<<2, 1>>}, (1..n) \X (1..n)}

\* every answer the service may give to a request for n points
OsrmResponses(all_points) ==
    LET n == Len(ValidPoints(all_points))
    IN  {[kind |-> k, distances |-> <<>>, durations |-> <<>>] :
            k \in {"exception", "status", "code"}}
        \cup
        {[kind |-> "ok",
          distances |-> OsrmTable(all_points, sh[1], sh[2], sh[3], "distance"),
          durations |-> OsrmTable(all_points, sh[4], sh[5], sh[6], "duration")] :
            sh \in {x \in Sizes(n) \X Sizes(n) \X NullSets(n)
                          \X Sizes(n) \X Sizes(n) \X NullSets(n) :
                       \* the duration table differs from the distance table
                       \* in at most one of its sizes or in its nulls
                       \/ (x[4] = x[1] /\ x[5] = x[2])
                       \/ (x[4] = x[1] /\ x[6] = x[3])
                       \/ (x[5] = x[2] /\ x[6] = x[3])}}

-----------------------------------------------------------------------------
(* Route Sequencer: _destinations_match *)

MatchTolerance == 1

DestinationsMatch(dest1, dest2) ==
    IF dest1.id # 0 /\ dest2.id # 0
    THEN dest1.id = dest2.id
    ELSE IF dest1.latitude # 0 /\ dest1.longitude # 0 /\ dest2.latitude # 0 /\ dest2.longitude # 0
         THEN /\ Abs(dest1.latitude - dest2.latitude) < MatchTolerance
              /\ Abs(dest1.longitude - dest2.longitude) < MatchTolerance
         ELSE dest1.name = dest2.name

NoIndex == 0 - 1

\* 0-based index of the first destination of orig that matches dest, or NoIndex
OriginalIndex(dest, orig) ==
    IF \E i \in DOMAIN orig : DestinationsMatch(dest, orig[i])
    THEN (CHOOSE i \in DOMAIN orig :
              /\ DestinationsMatch(dest, orig[i])
              /\ \A j \in 1..(i - 1) : ~DestinationsMatch(dest, orig[j])) - 1
    ELSE NoIndex

-----------------------------------------------------------------------------
(* Route Sequencer: _nearest_neighbor_tsp *)

IterationCap == 20

NNInit(dests) ==
    [unvisited |-> dests, route |-> <<>>, current_point_idx |-> 0,
     iteration |-> 0, broke |-> FALSE]

NNRunning(s) == s.unvisited # <<>> /\ s.iteration < IterationCap /\ ~s.broke

\* the inner for loop: best = [idx, dist], idx = 0 while nearest_dest is None
RECURSIVE ScanNearest(_, _, _, _, _, _, _)
ScanNearest(unv, k, orig, m, sc, cur, best) ==
    IF k > Len(unv) THEN best
    ELSE LET o   == OriginalIndex(unv[k], orig)
             key == <<cur, sc + o>>
             hit == /\ o # NoIndex
                    /\ key \in DOMAIN m
                    /\ (best.idx = 0 \/ m[key].distance_m < best.dist)
         IN  ScanNearest(unv, k + 1, orig, m, sc, cur,
                         IF hit THEN [idx |-> k, dist |-> m[key].distance_m] ELSE best)

NNPopWrong(unv, k) == RemoveAt(unv, IF k < Len(unv) THEN k + 1 ELSE 1)

\* unvisited.pop(nearest_idx)
NNPop(unv, k) == RemoveAt(unv, k)

\* a faulty variant: without a reachable candidate the prefix is dropped
NNIterDropsPrefix(s, orig, m, sc) ==
    LET best == ScanNearest(s.unvisited, 1, orig, m, sc, s.current_point_idx,
                            [idx |-> 0, dist |-> 0])
    IN  IF best.idx # 0
        THEN LET nearest_dest == s.unvisited[best.idx]
                 o == OriginalIndex(nearest_dest, orig)
             IN  [unvisited |-> NNPop(s.unvisited, best.idx),
                  route |-> Append(s.route, nearest_dest),
                  current_point_idx |-> IF o # NoIndex THEN sc + o ELSE s.current_point_idx,
                  iteration |-> s.iteration + 1,
                  broke |-> FALSE]
        ELSE [unvisited |-> s.unvisited,
              route |-> s.unvisited,
              current_point_idx |-> s.current_point_idx,
              iteration |-> s.iteration + 1,
              broke |-> TRUE]

\* one iteration of the while loop
NNIter(s, orig, m, sc) ==
    LET best == ScanNearest(s.unvisited, 1, orig, m, sc, s.current_point_idx,
                            [idx |-> 0, dist |-> 0])
    IN  IF best.idx # 0
        THEN LET nearest_dest == s.unvisited[best.idx]
                 o == OriginalIndex(nearest_dest, orig)
             IN  [unvisited |-> NNPop(s.unvisited, best.idx),
                  route |-> Append(s.route, nearest_dest),
                  current_point_idx |-> IF o # NoIndex THEN sc + o ELSE s.current_point_idx,
                  iteration |-> s.iteration + 1,
                  broke |-> FALSE]
        ELSE [unvisited |-> s.unvisited,
              route |-> s.route \o s.unvisited,
              current_point_idx |-> s.current_point_idx,
              iteration |-> s.iteration + 1,
              broke |-> TRUE]

RECURSIVE NNLoop(_, _, _, _)
NNLoop(s, orig, m, sc) ==
    IF NNRunning(s) THEN NNLoop(NNIter(s, orig, m, sc), orig, m, sc) ELSE s

\* a faulty variant: the route built is returned whatever its length
NNResultKeepsRoute(s, dests) == s.route

\* the safety check after the loop
NNResult(s, dests) == IF Len(s.route) # Len(dests) THEN dests ELSE s.route

NearestNeighborTsp(source, dests, m, sc) ==
    IF dests = <<>> THEN <<>> ELSE NNResult(NNLoop(NNInit(dests), dests, m, sc), dests)

-----------------------------------------------------------------------------
(* Route Sequencer: _calculate_route_distance and _two_opt_improvement *)

MaxIterations == 50

RECURSIVE RouteDistanceFrom(_, _, _, _, _, _)
RouteDistanceFrom(r, k, cur, m, sc, total) ==
    IF k > Len(r) THEN total
    ELSE LET dest_idx == sc + (IndexOf(r, r[k]) - 1)
             key == <<cur, dest_idx>>
         IN  RouteDistanceFrom(r, k + 1, dest_idx, m, sc,
                               IF key \in DOMAIN m THEN total + m[key].distance_m ELSE total)

\* a faulty variant: every stop is looked up under its index in the matrix
CalculateRouteDistanceByMatrixIndex(r, m, sc) ==
    LET idx(k) == IF k = 0 THEN 0 ELSE sc + OriginalIndex(r[k], destinations)
        leg(k) == IF <<idx(k - 1), idx(k)>> \in DOMAIN m
                  THEN m[<<idx(k - 1), idx(k)>>].distance_m ELSE 0
        sum[k \in 0..Len(r)] == IF k = 0 THEN 0 ELSE sum[k - 1] + leg(k)
    IN sum[Len(r)]

CalculateRouteDistance(r, m, sc) == RouteDistanceFrom(r, 1, 0, m, sc, 0)

\* route[:i] + route[i:j][::-1] + route[j:], i and j as in the code (0-based)
TwoOptCandidate(r, i, j) ==
    [p \in 1..Len(r) |-> IF p <= i \/ p > j THEN r[p] ELSE r[i + 1 + j - p]]

\* the double for loop of one pass, from the pair (i, j) on
RECURSIVE TwoOptScan(_, _, _, _, _, _)
TwoOptScan(r, i, j, acc, m, sc) ==
    IF i > Len(r) - 3 THEN acc
    ELSE IF j > Len(r) - 1 THEN TwoOptScan(r, i + 1, i + 2, acc, m, sc)
    ELSE IF j - i = 1 THEN TwoOptScan(r, i, j + 1, acc, m, sc)
    ELSE LET new_route == TwoOptCandidate(r, i, j)
             new_distance == CalculateRouteDistance(new_route, m, sc)
         IN  TwoOptScan(r, i, j + 1,
                        IF new_distance < acc.best_distance
                        THEN [best_route |-> new_route, best_distance |-> new_distance,
                              improved |-> TRUE]
                        ELSE acc, m, sc)

TwoOptInit(r) == [route |-> r, best_route |-> r, improved |-> TRUE, iterations |-> 0]

TwoOptRunning(s) == Len(s.route) >= 4 /\ s.improved /\ s.iterations < MaxIterations

\* one iteration of the while loop
TwoOptIter(s, m, sc) ==
    LET acc == TwoOptScan(s.route, 1, 2,
                          [best_route |-> s.best_route,
                           best_distance |-> CalculateRouteDistance(s.best_route, m, sc),
                           improved |-> FALSE], m, sc)
    IN  [route |-> acc.best_route, best_route |-> acc.best_route,
         improved |-> acc.improved, iterations |-> s.iterations + 1]

RECURSIVE TwoOptLoop(_, _, _)
TwoOptLoop(s, m, sc) ==
    IF TwoOptRunning(s) THEN TwoOptLoop(TwoOptIter(s, m, sc), m, sc) ELSE s

TwoOptImprovement(r, m, sc) == TwoOptLoop(TwoOptInit(r), m, sc).best_route

\* _calculate_route_metrics (distance): the matrix entries along the source
\* and the stops, each stop found by _destinations_match in `reference`
RECURSIVE RouteMetricsFrom(_, _, _, _, _, _, _)
RouteMetricsFrom(r, k, cur, reference, m, sc, total) ==
    IF k > Len(r) THEN total
    ELSE LET o == OriginalIndex(r[k], reference)
             key == <<cur, sc + o>>
         IN  IF o = NoIndex THEN RouteMetricsFrom(r, k + 1, cur, reference, m, sc, total)
             ELSE RouteMetricsFrom(r, k + 1, sc + o, reference, m, sc,
                      IF key \in DOMAIN m THEN total + m[key].distance_m ELSE total)

RouteMetricsDistance(r, reference, m, sc) == RouteMetricsFrom(r, 1, 0, reference, m, sc, 0)

\* _calculate_route_metrics (duration): the same walk over duration_hours
RECURSIVE RouteDurationFrom(_, _, _, _, _, _, _)
RouteDurationFrom(r, k, cur, reference, m, sc, total) ==
    IF k > Len(r) THEN total
    ELSE LET o == OriginalIndex(r[k], reference)
             key == <<cur, sc + o>>
         IN  IF o = NoIndex THEN RouteDurationFrom(r, k + 1, cur, reference, m, sc, total)
             ELSE RouteDurationFrom(r, k + 1, sc + o, reference, m, sc,
                      IF key \in DOMAIN m THEN total + m[key].duration_s ELSE total)

RouteMetricsDuration(r, reference, m, sc) == RouteDurationFrom(r, 1, 0, reference, m, sc, 0)

-----------------------------------------------------------------------------
(* Cargo-Aware Route Splitter: analysis and strategy *)

Vehicle(id, payload, volume) ==
    [id |-> id, max_payload |-> payload, cargo_volume |-> volume]

DefaultMaxPayload == 25000

DefaultCargoVolume == 90

SetMax(S) == CHOOSE x \in S : \A y \in S : y <= x

SetMin(S) == CHOOSE x \in S : \A y \in S : x <= y

RECURSIVE TotalWeight(_)
TotalWeight(dests) ==
    IF dests = <<>> THEN 0 ELSE Head(dests).total_weight + TotalWeight(Tail(dests))

RECURSIVE TotalVolume(_)
TotalVolume(dests) ==
    IF dests = <<>> THEN 0 ELSE Head(dests).total_volume + TotalVolume(Tail(dests))

\* (lat_range + lng_range) / 2 in twentieths of a degree
GeographicalSpread(dests) ==
    LET lats == {dests[i].latitude : i \in DOMAIN dests} \ {0}
        lngs == {dests[i].longitude : i \in DOMAIN dests} \ {0}
    IN  IF lats # {} /\ lngs # {}
        THEN (SetMax(lats) - SetMin(lats)) + (SetMax(lngs) - SetMin(lngs))
        ELSE 0

AnalyzeCargoRequirements(dests) ==
    [total_weight |-> TotalWeight(dests),
     total_volume |-> TotalVolume(dests),
     destination_count |-> Len(dests),
     geographical_spread |-> GeographicalSpread(dests)]

MaxVehicleWeight(fleet) ==
    IF fleet # <<>> THEN SetMax({fleet[i].max_payload : i \in DOMAIN fleet})
    ELSE DefaultMaxPayload

MaxVehicleVolume(fleet) ==
    IF fleet # <<>> THEN SetMax({fleet[i].cargo_volume : i \in DOMAIN fleet})
    ELSE DefaultCargoVolume

\* spread < 0.5 degree is < 10 twentieths; spread > 1.0 degree is > 20
\* (CapacityFirst: the same tree with the capacity test before the spread test)
DetermineRoutingStrategyCapacityFirst(cargo, fleet) ==
    IF /\ cargo.destination_count <= 3
       /\ cargo.total_weight * 10 <= MaxVehicleWeight(fleet) * 8
       /\ cargo.total_volume * 10 <= MaxVehicleVolume(fleet) * 8
    THEN "single_optimized_route"
    ELSE IF \/ cargo.total_weight > MaxVehicleWeight(fleet)
            \/ cargo.total_volume > MaxVehicleVolume(fleet)
    THEN "capacity_based_splitting"
    ELSE IF cargo.geographical_spread < 10 THEN "single_optimized_route"
    ELSE IF cargo.geographical_spread > 20 THEN "geographical_clustering"
    ELSE "balanced_optimization"

DetermineRoutingStrategy(cargo, fleet) ==
    IF /\ cargo.destination_count <= 3
       /\ cargo.total_weight * 10 <= MaxVehicleWeight(fleet) * 8
       /\ cargo.total_volume * 10 <= MaxVehicleVolume(fleet) * 8
    THEN "single_optimized_route"
    ELSE IF cargo.geographical_spread < 10 THEN "single_optimized_route"
    ELSE IF \/ cargo.total_weight > MaxVehicleWeight(fleet)
            \/ cargo.total_volume > MaxVehicleVolume(fleet)
    THEN "capacity_based_splitting"
    ELSE IF cargo.geographical_spread > 20 THEN "geographical_clustering"
    ELSE "balanced_optimization"

-----------------------------------------------------------------------------
(* Cargo-Aware Route Splitter: the four route builders *)

\* cargo_weight / cargo_volume of a route that records none
NoCargo == 0 - 1

Route(source, dests, method, weight, volume) ==
    [source |-> source, destinations |-> dests, optimization_method |-> method,
     cargo_weight |-> weight, cargo_volume |-> volume]

\* the route with the total_distance and total_duration that
\* _calculate_route_metrics gives for its stops; `reference` is the list the
\* builder passes as original_destinations
Measured(route, reference, m, sc) ==
    [source |-> route.source, destinations |-> route.destinations,
     optimization_method |-> route.optimization_method,
     cargo_weight |-> route.cargo_weight, cargo_volume |-> route.cargo_volume,
     total_distance |-> RouteMetricsDistance(route.destinations, reference, m, sc),
     total_duration |-> RouteMetricsDuration(route.destinations, reference, m, sc)]

OptimizedSequence(source, dests, m, sc) ==
    TwoOptImprovement(NearestNeighborTsp(source, dests, m, sc), m, sc)

CreateSingleOptimizedRoute(srcs, dests, m) ==
    IF srcs = <<>> \/ dests = <<>> THEN <<>>
    ELSE << Measured(Route(srcs[1], OptimizedSequence(srcs[1], dests, m, Len(srcs)),
                           "single_route_tsp_2opt", NoCargo, NoCargo),
                     dests, m, Len(srcs)) >>

\* the inner loop over remaining_destinations.copy(): snap is the copy,
\* s the loads and lists built so far
RECURSIVE FillVehicle(_, _, _, _)
FillVehicle(snap, k, vehicle, s) ==
    IF k > Len(snap) THEN s
    ELSE LET dest == snap[k]
         IN  IF /\ s.current_weight + dest.total_weight <= vehicle.max_payload
                /\ s.current_volume + dest.total_volume <= vehicle.cargo_volume
             THEN FillVehicle(snap, k + 1, vehicle,
                      [route_destinations |-> Append(s.route_destinations, dest),
                       current_weight |-> s.current_weight + dest.total_weight,
                       current_volume |-> s.current_volume + dest.total_volume,
                       remaining |-> RemoveAt(s.remaining, IndexOf(s.remaining, dest))])
             ELSE FillVehicle(snap, k + 1, vehicle, s)

\* `for vehicle in vehicles`, with the break on an empty remainder
RECURSIVE CapacityLoop(_, _, _, _, _, _, _)
CapacityLoop(fleet, vi, srcs, remaining, built, source_idx, m) ==
    IF vi > Len(fleet) \/ remaining = <<>> THEN built
    ELSE LET f == FillVehicle(remaining, 1, fleet[vi],
                      [route_destinations |-> <<>>, current_weight |-> 0,
                       current_volume |-> 0, remaining |-> remaining])
             source == srcs[(source_idx % Len(srcs)) + 1]
         IN  IF f.route_destinations # <<>>
             THEN CapacityLoop(fleet, vi + 1, srcs, f.remaining,
                      Append(built,
                             Measured(Route(source,
                                            OptimizedSequence(source, f.route_destinations, m, Len(srcs)),
                                            "capacity_based_tsp", f.current_weight, f.current_volume),
                                      f.route_destinations, m, Len(srcs))),
                      source_idx + 1, m)
             ELSE CapacityLoop(fleet, vi + 1, srcs, f.remaining, built, source_idx, m)

CreateCapacityBasedRoutes(srcs, dests, m, fleet) ==
    CapacityLoop(fleet, 1, srcs, dests, <<>>, 0, m)

(* k-means.  A centroid is kept as the sums of its cluster's coordinates and
   the cluster's size, so that the averages need no division; distances to
   two centroids are compared as squares, cross-multiplied by the sizes. *)

Centroid(lat_sum, lng_sum, count) ==
    [lat_sum |-> lat_sum, lng_sum |-> lng_sum, count |-> count]

CentroidDistSq(dest, c) ==
    LET dlat == dest.latitude * c.count - c.lat_sum
        dlng == dest.longitude * c.count - c.lng_sum
    IN  dlat * dlat + dlng * dlng

Nearer(dest, a, b) ==
    CentroidDistSq(dest, a) * b.count * b.count < CentroidDistSq(dest, b) * a.count * a.count

\* the first centroid at the least distance (`distance < min_distance`)
BestCluster(dest, centroids) ==
    CHOOSE i \in DOMAIN centroids :
        /\ \A j \in 1..(i - 1) : Nearer(dest, centroids[i], centroids[j])
        /\ \A j \in (i + 1)..Len(centroids) : ~Nearer(dest, centroids[j], centroids[i])

AssignClusters(dests, centroids) ==
    [i \in DOMAIN centroids |->
        SelectSeq(dests, LAMBDA d : BestCluster(d, centroids) = i)]

RECURSIVE LatSum(_)
LatSum(dests) == IF dests = <<>> THEN 0 ELSE Head(dests).latitude + LatSum(Tail(dests))

RECURSIVE LngSum(_)
LngSum(dests) == IF dests = <<>> THEN 0 ELSE Head(dests).longitude + LngSum(Tail(dests))

UpdateCentroids(clusters, centroids) ==
    [i \in DOMAIN clusters |->
        IF clusters[i] # <<>>
        THEN Centroid(LatSum(clusters[i]), LngSum(clusters[i]), Len(clusters[i]))
        ELSE centroids[i]]

KMeansIterations == 10

RECURSIVE KMeans(_, _, _)
KMeans(dests, centroids, iteration) ==
    LET clusters == AssignClusters(dests, centroids)
    IN  IF iteration + 1 >= KMeansIterations THEN clusters
        ELSE KMeans(dests, UpdateCentroids(clusters, centroids), iteration + 1)

\* sample: the positions random.sample drew, in the order drawn
ClusterDestinations(dests, num_clusters, sample) ==
    IF Len(dests) <= num_clusters THEN [i \in DOMAIN dests |-> <<dests[i]>>]
    ELSE SelectSeq(
             KMeans(dests,
                    [i \in 1..num_clusters |->
                        Centroid(dests[sample[i]].latitude, dests[sample[i]].longitude, 1)],
                    0),
             LAMBDA cluster : cluster # <<>>)

Samples(n, k) ==
    {g \in [1..k -> 1..n] : \A a, b \in 1..k : a # b => g[a] # g[b]}

MaxClusters == 4

NumClusters(fleet, dests) ==
    SetMin({Len(fleet), Len(dests), MaxClusters})

\* clusters[best_cluster].append(dest) on an empty list of clusters
ClusterRaises(fleet, dests) ==
    NumClusters(fleet, dests) = 0 /\ dests # <<>>

SourceTotal(source_idx, srcs, cluster, m) ==
    LET key(i) == <<source_idx, Len(srcs) + IndexOf(cluster, cluster[i]) - 1>>
        RECURSIVE Tot(_)
        Tot(i) == IF i > Len(cluster) THEN 0
                  ELSE (IF key(i) \in DOMAIN m THEN m[key(i)].distance_m ELSE 0) + Tot(i + 1)
    IN  Tot(1)

FindBestSourceForCluster(srcs, cluster, m) ==
    LET best == CHOOSE i \in DOMAIN srcs :
                    /\ \A j \in 1..(i - 1) :
                           SourceTotal(i - 1, srcs, cluster, m) < SourceTotal(j - 1, srcs, cluster, m)
                    /\ \A j \in (i + 1)..Len(srcs) :
                           SourceTotal(i - 1, srcs, cluster, m) <= SourceTotal(j - 1, srcs, cluster, m)
    IN  srcs[best]

ClusterMethod(i) ==
    IF i = 1 THEN "geographical_cluster_1" ELSE IF i = 2 THEN "geographical_cluster_2"
    ELSE IF i = 3 THEN "geographical_cluster_3" ELSE "geographical_cluster_4"

CreateGeographicalClusterRoutes(srcs, dests, m, fleet, sample) ==
    LET clusters == ClusterDestinations(dests, NumClusters(fleet, dests), sample)
    IN  [i \in DOMAIN clusters |->
            LET best_source == FindBestSourceForCluster(srcs, clusters[i], m)
            IN  Measured(Route(best_source,
                               OptimizedSequence(best_source, clusters[i], m, Len(srcs)),
                               ClusterMethod(i), NoCargo, NoCargo),
                         clusters[i], m, Len(srcs))]

\* max(vehicles, key=max_payload): the first vehicle of the largest payload
LargestVehicle(fleet) ==
    fleet[CHOOSE i \in DOMAIN fleet :
              /\ \A j \in 1..(i - 1) : fleet[j].max_payload < fleet[i].max_payload
              /\ \A j \in (i + 1)..Len(fleet) : fleet[j].max_payload <= fleet[i].max_payload]

SplitRoute(source, dests, method, weight, volume, m, sc) ==
    Measured(Route(source, NearestNeighborTsp(source, dests, m, sc), method, weight, volume),
             dests, m, sc)

RECURSIVE SplitLoop(_, _, _, _, _, _, _)
SplitLoop(route, k, max_vehicle, cur, split_routes, m, sc) ==
    IF k > Len(route.destinations)
    THEN IF cur.current_destinations # <<>>
         THEN Append(split_routes,
                     SplitRoute(route.source, cur.current_destinations, "capacity_split_final",
                                cur.current_weight, cur.current_volume, m, sc))
         ELSE split_routes
    ELSE LET dest == route.destinations[k]
         IN  IF /\ cur.current_weight + dest.total_weight <= max_vehicle.max_payload
                /\ cur.current_volume + dest.total_volume <= max_vehicle.cargo_volume
             THEN SplitLoop(route, k + 1, max_vehicle,
                      [current_destinations |-> Append(cur.current_destinations, dest),
                       current_weight |-> cur.current_weight + dest.total_weight,
                       current_volume |-> cur.current_volume + dest.total_volume],
                      split_routes, m, sc)
             ELSE SplitLoop(route, k + 1, max_vehicle,
                      [current_destinations |-> <<dest>>,
                       current_weight |-> dest.total_weight,
                       current_volume |-> dest.total_volume],
                      IF cur.current_destinations # <<>>
                      THEN Append(split_routes,
                                  SplitRoute(route.source, cur.current_destinations,
                                             "capacity_split", cur.current_weight,
                                             cur.current_volume, m, sc))
                      ELSE split_routes,
                      m, sc)

SplitRouteByCapacity(route, fleet, m, sc) ==
    SplitLoop(route, 1,
              IF fleet # <<>> THEN LargestVehicle(fleet)
              ELSE Vehicle(0, DefaultMaxPayload, DefaultCargoVolume),
              [current_destinations |-> <<>>, current_weight |-> 0, current_volume |-> 0],
              <<>>, m, sc)

FitsAVehicle(route, fleet) ==
    \E i \in DOMAIN fleet :
        /\ TotalWeight(route.destinations) <= fleet[i].max_payload
        /\ TotalVolume(route.destinations) <= fleet[i].cargo_volume

RECURSIVE BalanceLoop(_, _, _, _, _, _)
BalanceLoop(geo_routes, k, fleet, balanced_routes, m, sc) ==
    IF k > Len(geo_routes) THEN balanced_routes
    ELSE BalanceLoop(geo_routes, k + 1, fleet,
             IF FitsAVehicle(geo_routes[k], fleet)
             THEN Append(balanced_routes, geo_routes[k])
             ELSE balanced_routes \o SplitRouteByCapacity(geo_routes[k], fleet, m, sc),
             m, sc)

CreateBalancedRoutes(srcs, dests, m, fleet, sample) ==
    BalanceLoop(CreateGeographicalClusterRoutes(srcs, dests, m, fleet, sample),
                1, fleet, <<>>, m, Len(srcs))

-----------------------------------------------------------------------------
(* The sequencer as a state machine: one action per loop iteration *)

\* the matrices the sequencer is run on: the complete one, some with keys
\* taken out (a whole row, one cell, everything)
MissingSets(n) ==
    {{}} \cup {Keys(n)}
         \cup {{k \in Keys(n) : k[1] = r} : r \in 0..(n - 1)}
         \cup {{<<i, i + 1>>} : i \in 0..(n - 2)}

Restrict(m, gone) == [k \in DOMAIN m \ gone |-> m[k]]

NoResponse == [kind |-> "none", distances |-> <<>>, durations |-> <<>>]

MatIdle == osrm = NoResponse /\ matPc = "idle"

NoValue == [type |-> "none", empty |-> TRUE, has_summary |-> FALSE, has_missions |-> FALSE]

CostIdle == costIn = <<>> /\ costOut = <<>> /\ costPc = "idle"

AssignIdle == assignIn = <<>> /\ assign = <<>> /\ assignPc = "idle"

CacheIdle == route_cache = <<>> /\ computations = <<>> /\ cacheLog = <<>>

SummaryIdle == mission = <<>> /\ summaryPc = "idle"

AiIdleOnly ==
    /\ aiEntry = "none"
    /\ aiIn = [has_sources |-> FALSE, has_destinations |-> FALSE,
               has_vehicles |-> FALSE, api_key |-> <<>>]
    /\ aiPc = "idle"
    /\ aiAttempts = <<>>
    /\ aiClient = [kind |-> "none", value |-> NoValue]
    /\ aiResult = [kind |-> "none", value |-> NoValue]

AiIdle == AiIdleOnly /\ CostIdle

SplitIdle ==
    /\ vehicles = <<>>
    /\ strategy = "none"
    /\ routes = <<>>
    /\ splitPc = "idle"

\* more destinations than the loop of _nearest_neighbor_tsp has iterations,
\* the farthest from the source first
LongDestinations ==
    [i \in 1..(IterationCap + 1) |-> Dest(200 + i, "L", 52 - i, 30, 100, 1)]

\* source (0, 0) and the destinations (0, 1), (1, 1), (1, 0), without ids
TieSource == <<Src(0, "O", 0, 0)>>

TieDestinations ==
    <<Dest(0, "P1", 0, 10, 100, 1), Dest(0, "P2", 10, 10, 100, 1),
      Dest(0, "P3", 10, 0, 100, 1)>>

SeqInputs ==
    {[sources |-> s, destinations |-> d] :
        s \in SourceLists, d \in DestinationLists(MaxDest)}

NearestNeighborInputs ==
    SeqInputs
    \cup {[sources |-> <<Src(101, "S1", 10, 10)>>, destinations |-> LongDestinations],
          [sources |-> TieSource, destinations |-> TieDestinations]}

SeqInitWith(inputs) ==
    /\ MatIdle
    /\ SplitIdle
    /\ AiIdle
    /\ AssignIdle
    /\ CacheIdle
    /\ SummaryIdle
    /\ \E input \in inputs :
           sources = input.sources /\ destinations = input.destinations
    /\ \E gone \in MissingSets(Len(sources) + Len(destinations)) :
           distance_matrix = Restrict(FallbackDistanceMatrix(sources, destinations), gone)
    /\ nn = NNInit(destinations)
    /\ opt = TwoOptInit(<<>>)
    /\ seqPc = "nearest_neighbor"
    /\ seqOut = <<>>

SeqInit == SeqInitWith(SeqInputs)

NNStep ==
    /\ seqPc = "nearest_neighbor"
    /\ NNRunning(nn)
    /\ nn' = NNIter(nn, destinations, distance_matrix, Len(sources))
    /\ UNCHANGED <<sources, destinations, distance_matrix, opt, seqPc, seqOut, nonSeqVars>>

NNReturn ==
    /\ seqPc = "nearest_neighbor"
    /\ ~NNRunning(nn)
    /\ opt' = TwoOptInit(NNResult(nn, destinations))
    /\ seqPc' = "two_opt"
    /\ UNCHANGED <<sources, destinations, distance_matrix, nn, seqOut, nonSeqVars>>

TwoOptStep ==
    /\ seqPc = "two_opt"
    /\ TwoOptRunning(opt)
    /\ opt' = TwoOptIter(opt, distance_matrix, Len(sources))
    /\ UNCHANGED <<sources, destinations, distance_matrix, nn, seqPc, seqOut, nonSeqVars>>

TwoOptReturn ==
    /\ seqPc = "two_opt"
    /\ ~TwoOptRunning(opt)
    /\ seqOut' = opt.best_route
    /\ seqPc' = "done"
    /\ UNCHANGED <<sources, destinations, distance_matrix, nn, opt, nonSeqVars>>

SeqNext == NNStep \/ NNReturn \/ TwoOptStep \/ TwoOptReturn

SpecSeq == SeqInit /\ [][SeqNext]_vars

\* _nearest_neighbor_tsp alone, called also with more destinations than its
\* loop has iterations
NearestNeighborInit == SeqInitWith(NearestNeighborInputs)

NearestNeighborNext == NNStep \/ NNReturn

SpecNearestNeighbor == NearestNeighborInit /\ [][NearestNeighborNext]_vars

-----------------------------------------------------------------------------
(* The matrix builder as a state machine *)

\* points of the builder's inputs: with and without coordinates
MatrixDestPool ==
    << Dest(1, "A", 10, 20, 500, 2), Dest(2, "B", 20, 20, 500, 2),
       Dest(3, "Z", 0, 0, 100, 1), Dest(4, "C", 20, 10, 500, 2) >>

MatrixDestinationLists(n) ==
    UNION {{[i \in 1..k |-> MatrixDestPool[f[i]]] :
               f \in {g \in [1..k -> DOMAIN MatrixDestPool] :
                          \A a, b \in 1..k : a # b => g[a] # g[b]}} : k \in 0..n}

MatrixSourceLists == SourceLists \cup { <<Src(103, "S0", 0, 15)>>, <<>> }

SeqIdle ==
    /\ nn = NNInit(<<>>)
    /\ opt = TwoOptInit(<<>>)
    /\ seqPc = "idle"
    /\ seqOut = <<>>

MatInit ==
    /\ SeqIdle
    /\ SplitIdle
    /\ AiIdle
    /\ AssignIdle
    /\ CacheIdle
    /\ SummaryIdle
    /\ sources \in MatrixSourceLists
    /\ destinations \in MatrixDestinationLists(MaxMatrixDest)
    /\ distance_matrix = <<>>
    /\ osrm = NoResponse
    /\ matPc = "filter"

\* fewer than two points have coordinates: no request is made
TooFewCoordinates ==
    /\ matPc = "filter"
    /\ Len(ValidPoints(sources \o destinations)) < 2
    /\ distance_matrix' = CalculateDistanceMatrix(sources, destinations, osrm)
    /\ matPc' = "done"
    /\ UNCHANGED <<sources, destinations, osrm, nonMatVars>>

\* requests.get(osrm_url, timeout=10) and what comes back
OsrmRequest ==
    /\ matPc = "filter"
    /\ Len(ValidPoints(sources \o destinations)) >= 2
    /\ osrm' \in OsrmResponses(sources \o destinations)
    /\ matPc' = "responded"
    /\ UNCHANGED <<sources, destinations, distance_matrix, nonMatVars>>

\* the answer is read into the matrix
BuildFromOsrm ==
    /\ matPc = "responded"
    /\ OsrmUsable(sources \o destinations, osrm)
    /\ distance_matrix' = CalculateDistanceMatrix(sources, destinations, osrm)
    /\ matPc' = "done"
    /\ UNCHANGED <<sources, destinations, osrm, nonMatVars>>

\* non-200, code other than 'Ok', or an exception inside the try block
FallbackAfterFailure ==
    /\ matPc = "responded"
    /\ ~OsrmUsable(sources \o destinations, osrm)
    /\ distance_matrix' = CalculateDistanceMatrix(sources, destinations, osrm)
    /\ matPc' = "done"
    /\ UNCHANGED <<sources, destinations, osrm, nonMatVars>>

MatNext == TooFewCoordinates \/ OsrmRequest \/ BuildFromOsrm \/ FallbackAfterFailure

SpecMatrix == MatInit /\ [][MatNext]_vars

-----------------------------------------------------------------------------
(* The splitter as a state machine *)

SplitDestPool ==
    << Dest(1, "A", 10, 20, 500, 2), Dest(2, "B", 20, 20, 100, 1),
       Dest(3, "C", 20, 10, 700, 3), Dest(4, "D", 25, 12, 800, 3),
       Dest(5, "E", 13, 16, 1000, 4), Dest(6, "F", 12, 21, 200, 5) >>

SplitDestinationLists(n) ==
    UNION {{[i \in 1..k |-> SplitDestPool[f[i]]] : f \in Samples(Len(SplitDestPool), k)} :
              k \in 0..n}

Fleets ==
    { <<>>,
      <<Vehicle(1, 1000, 10)>>,
      <<Vehicle(1, 1000, 10), Vehicle(2, 1500, 8)>>,
      <<Vehicle(2, 1500, 8), Vehicle(3, 3000, 20), Vehicle(1, 1000, 10)>> }

SplitInit ==
    /\ SeqIdle
    /\ MatIdle
    /\ AiIdle
    /\ AssignIdle
    /\ CacheIdle
    /\ SummaryIdle
    /\ sources \in SourceLists
    /\ destinations \in SplitDestinationLists(MaxSplitDest)
    /\ distance_matrix = FallbackDistanceMatrix(sources, destinations)
    /\ vehicles \in Fleets
    /\ strategy = "none"
    /\ routes = <<>>
    /\ splitPc = "analyze"

splitInputs == <<sources, destinations, distance_matrix, vehicles>>

DetermineStrategy ==
    /\ splitPc = "analyze"
    /\ strategy' = DetermineRoutingStrategy(AnalyzeCargoRequirements(destinations), vehicles)
    /\ splitPc' = "create"
    /\ UNCHANGED <<splitInputs, routes, nonSplitVars>>

CreateSingle ==
    /\ splitPc = "create"
    /\ strategy = "single_optimized_route"
    /\ routes' = CreateSingleOptimizedRoute(sources, destinations, distance_matrix)
    /\ splitPc' = "done"
    /\ UNCHANGED <<splitInputs, strategy, nonSplitVars>>

CreateCapacityBased ==
    /\ splitPc = "create"
    /\ strategy = "capacity_based_splitting"
    /\ routes' = CreateCapacityBasedRoutes(sources, destinations, distance_matrix, vehicles)
    /\ splitPc' = "done"
    /\ UNCHANGED <<splitInputs, strategy, nonSplitVars>>

\* the draws random.sample can make for this call
SampleChoices ==
    IF Len(destinations) <= NumClusters(vehicles, destinations) THEN {<<>>}
    ELSE Samples(Len(destinations), NumClusters(vehicles, destinations))

CreateGeographicalClusters ==
    /\ splitPc = "create"
    /\ strategy = "geographical_clustering"
    /\ ~ClusterRaises(vehicles, destinations)
    /\ \E sample \in SampleChoices :
           routes' = CreateGeographicalClusterRoutes(sources, destinations, distance_matrix,
                                                     vehicles, sample)
    /\ splitPc' = "done"
    /\ UNCHANGED <<splitInputs, strategy, nonSplitVars>>

CreateBalanced ==
    /\ splitPc = "create"
    /\ strategy = "balanced_optimization"
    /\ ~ClusterRaises(vehicles, destinations)
    /\ \E sample \in SampleChoices :
           routes' = CreateBalancedRoutes(sources, destinations, distance_matrix,
                                          vehicles, sample)
    /\ splitPc' = "done"
    /\ UNCHANGED <<splitInputs, strategy, nonSplitVars>>

\* an empty fleet gives zero clusters: the assignment raises IndexError
ClusterIndexError ==
    /\ splitPc = "create"
    /\ strategy \in {"geographical_clustering", "balanced_optimization"}
    /\ ClusterRaises(vehicles, destinations)
    /\ splitPc' = "raised"
    /\ UNCHANGED <<splitInputs, strategy, routes, nonSplitVars>>

SplitNext ==
    \/ DetermineStrategy
    \/ CreateSingle
    \/ CreateCapacityBased
    \/ CreateGeographicalClusters
    \/ CreateBalanced
    \/ ClusterIndexError

SpecSplit == SplitInit /\ [][SplitNext]_vars

-----------------------------------------------------------------------------
(* Generative-AI optimization: the two AI clients and their entry points.
   "service" is AiAnalystService (optimize_bulk_missions and
   _call_gemini_for_bulk_optimization), "wizard" is BulkMissionWizard
   (_optimize_bulk_missions_with_ai and _call_gemini_api).  Texts are
   sequences of characters. *)

\* Python's `pat in msg`
Contains(msg, pat) ==
    \E i \in 0..(Len(msg) - Len(pat)) : SubSeq(msg, i + 1, i + Len(pat)) = pat

\* raise_for_status: 4xx and 5xx raise HTTPError
IsHttpError(status) == status[1] \in {"4", "5"}

ReasonPhrase(status) ==
    IF status = <<"4", "2", "9">> THEN <<"Too Many Requests">>
    ELSE IF status = <<"5", "0", "3">> THEN <<"Service Unavailable">>
    ELSE <<"Bad Request">>

\* str(http_err): "<status> <Client|Server> Error: <reason> for url: <url>",
\* the url being request_url = f"{api_url}?key={api_key}"
HttpErrorMessage(status, api_key) ==
    status \o <<" ", IF status[1] = "4" THEN "Client Error: " ELSE "Server Error: ">>
           \o ReasonPhrase(status) \o <<" for url: ", "generateContent?key=">> \o api_key

\* `"429" in str(http_err) or "Too Many Requests" in str(http_err)`
RetryTriggered(status, api_key) ==
    \/ Contains(HttpErrorMessage(status, api_key), <<"4", "2", "9">>)
    \/ Contains(HttpErrorMessage(status, api_key), <<"Too Many Requests">>)

\* json.loads of the text of the first candidate
Parsed(body) ==
    [type |-> IF body = "list" THEN "list" ELSE "object",
     empty |-> body = "empty_object",
     has_summary |-> body \in {"plan", "summary_only"},
     has_missions |-> body \in {"plan", "missions_only"}]

Value(v) == [kind |-> "value", value |-> v]

ClientUserError == [kind |-> "user_error", value |-> NoValue]

\* _create_simple_json_response
CannedResponse ==
    [kind |-> "canned",
     value |-> [type |-> "object", empty |-> FALSE, has_summary |-> TRUE, has_missions |-> TRUE]]

\* the first attempt of either client
ClientFirst(entry, resp, api_key) ==
    IF resp.transport # "ok" THEN ClientUserError
    ELSE IF IsHttpError(resp.status)
    THEN IF RetryTriggered(resp.status, api_key)
         THEN [kind |-> "retry", value |-> NoValue]
         ELSE ClientUserError
    ELSE IF resp.body = "no_candidates" THEN ClientUserError
    ELSE IF resp.body = "not_json"
    THEN IF entry = "wizard" THEN CannedResponse ELSE ClientUserError
    ELSE IF resp.body = "list" /\ entry = "service" THEN ClientUserError
    ELSE Value(Parsed(resp.body))

\* the retry: any exception ends in UserError, the value is not validated
ClientRetry(resp) ==
    IF \/ resp.transport # "ok"
       \/ IsHttpError(resp.status)
       \/ resp.body \in {"no_candidates", "not_json"}
    THEN ClientUserError
    ELSE Value(Parsed(resp.body))

\* _recalculate_costs_in_ai_response: an object with missions gets a summary
RecalculateCosts(v) ==
    IF v.type = "object" /\ ~v.empty /\ v.has_missions
    THEN [v EXCEPT !.has_summary = TRUE] ELSE v

Fallback == [kind |-> "fallback", value |-> NoValue]

Raised == [kind |-> "raised", value |-> NoValue]

\* `if not optimized_missions` / `if not isinstance(optimized_missions, dict)`
\* (Unchecked: the same without the two checks)
EntryAcceptsUnchecked(v) == TRUE

EntryAccepts(v) == ~v.empty /\ v.type = "object"

\* the entry point, from what its client gave back
EntryResult(entry, outcome) ==
    IF outcome.kind = "user_error"
    THEN IF entry = "wizard" THEN Raised ELSE Fallback
    ELSE LET v == IF entry = "wizard" THEN RecalculateCosts(outcome.value)
                  ELSE outcome.value
         IN  IF ~EntryAccepts(v) THEN Fallback
             ELSE [kind |-> IF outcome.kind = "canned" THEN "canned" ELSE "ai", value |-> v]

Statuses == { <<"2", "0", "0">>, <<"4", "2", "9">>, <<"5", "0", "3">>, <<"4", "0", "0">> }

Bodies ==
    {"plan", "summary_only", "missions_only", "empty_object", "list", "not_json",
     "no_candidates"}

\* what may come back from requests.post
AiResponses ==
    {[transport |-> t, status |-> <<>>, body |-> "none"] : t \in {"timeout", "connection"}}
    \cup {[transport |-> "ok", status |-> st, body |-> "none"] :
             st \in {x \in Statuses : IsHttpError(x)}}
    \cup {[transport |-> "ok", status |-> <<"2", "0", "0">>, body |-> b] : b \in Bodies}

ApiKeys == { <<>>, <<"A", "I", "z", "a">>, <<"k", "4", "2", "9", "x">> }

AiInit ==
    /\ SeqIdle /\ MatIdle /\ SplitIdle /\ CostIdle /\ AssignIdle
    /\ CacheIdle /\ SummaryIdle
    /\ sources = <<>> /\ destinations = <<>> /\ distance_matrix = <<>>
    /\ aiEntry \in {"service", "wizard"}
    /\ aiIn \in [has_sources : BOOLEAN, has_destinations : BOOLEAN,
                 has_vehicles : BOOLEAN, api_key : ApiKeys]
    /\ aiPc = "start"
    /\ aiAttempts = <<>>
    /\ aiClient = [kind |-> "none", value |-> NoValue]
    /\ aiResult = [kind |-> "none", value |-> NoValue]

\* "No locations to optimize" / "No vehicles available"
InputRejected ==
    (~aiIn.has_sources /\ ~aiIn.has_destinations) \/ ~aiIn.has_vehicles

Finish(result) ==
    /\ aiResult' = result
    /\ aiPc' = IF result.kind = "raised" THEN "raised" ELSE "returned"

\* the ValueError of the validation is raised inside the try block and
\* caught by `except Exception`
RejectInput ==
    /\ aiPc = "start"
    /\ InputRejected
    /\ Finish(Fallback)
    /\ UNCHANGED <<aiEntry, aiIn, aiAttempts, aiClient, nonAiVars>>

\* no API key configured: UserError before any request
KeyNotConfigured ==
    /\ aiPc = "start"
    /\ ~InputRejected
    /\ aiIn.api_key = <<>>
    /\ aiClient' = ClientUserError
    /\ Finish(EntryResult(aiEntry, ClientUserError))
    /\ UNCHANGED <<aiEntry, aiIn, aiAttempts, nonAiVars>>

FirstRequest ==
    /\ aiPc = "start"
    /\ ~InputRejected
    /\ aiIn.api_key # <<>>
    /\ \E resp \in AiResponses :
         LET outcome == ClientFirst(aiEntry, resp, aiIn.api_key)
         IN  /\ aiAttempts' = <<resp>>
             /\ IF outcome.kind = "retry"
                THEN aiPc' = "retry" /\ UNCHANGED <<aiClient, aiResult>>
                ELSE aiClient' = outcome /\ Finish(EntryResult(aiEntry, outcome))
    /\ UNCHANGED <<aiEntry, aiIn, nonAiVars>>

RetryRequest ==
    /\ aiPc = "retry"
    /\ \E resp \in AiResponses :
         /\ aiAttempts' = Append(aiAttempts, resp)
         /\ aiClient' = ClientRetry(resp)
         /\ Finish(EntryResult(aiEntry, ClientRetry(resp)))
    /\ UNCHANGED <<aiEntry, aiIn, nonAiVars>>

AiNext == RejectInput \/ KeyNotConfigured \/ FirstRequest \/ RetryRequest

SpecAI == AiInit /\ [][AiNext]_vars

-----------------------------------------------------------------------------
(* The client of the wizard on a 200 answer: BulkMissionWizard._call_gemini_api
   from the text of the first candidate on.  A text is a sequence of tokens:
   fence_json and fence the markdown fences with and without the tag, the JSON
   punctuation (braces and comma), m a well-formed member (quoted key, colon,
   value), u a member whose key has no quotes, x any other text. *)

MaxBodyLen == 4

BodyTokens == {"{", "}", ",", "m", "u"}

ResponseTexts ==
    {pre \o body \o post :
        pre \in {<<>>, <<"fence_json">>, <<"fence">>, <<"x">>},
        body \in SeqsUpTo(BodyTokens, MaxBodyLen),
        post \in {<<>>, <<"fence">>, <<"x">>}}

\* lines 1803-1808
StripMarkdown(text) ==
    LET t1 == IF text # <<>> /\ text[1] = "fence_json" THEN Tail(text) ELSE text
        t2 == IF t1 # <<>> /\ t1[1] = "fence" THEN Tail(t1) ELSE t1
    IN  IF t2 # <<>> /\ t2[Len(t2)] = "fence" THEN SubSeq(t2, 1, Len(t2) - 1) ELSE t2

\* lines 1813-1819: find and rfind of the braces
ExtractJsonBoundaries(text) ==
    LET opens == {i \in DOMAIN text : text[i] = "{"}
        closes == {i \in DOMAIN text : text[i] = "}"}
    IN  IF opens # {} /\ closes # {}
        THEN LET json_start == CHOOSE i \in opens : \A j \in opens : i <= j
                 json_end == CHOOSE i \in closes : \A j \in closes : j <= i
             IN  IF json_end > json_start THEN SubSeq(text, json_start, json_end) ELSE text
        ELSE text

\* line 1828: a comma before a closing brace or bracket is removed
RemoveTrailingCommas(text) ==
    LET kept == {i \in DOMAIN text : ~(text[i] = "," /\ i < Len(text) /\ text[i + 1] = "}")}
        nth(k) == CHOOSE i \in kept : Cardinality({j \in kept : j < i}) = k - 1
    IN  [k \in 1..Cardinality(kept) |-> text[nth(k)]]

\* json.loads succeeds: an object of well-formed members separated by commas
Loads(text) ==
    /\ Len(text) >= 2 /\ text[1] = "{" /\ text[Len(text)] = "}"
    /\ LET inner == SubSeq(text, 2, Len(text) - 1)
       IN  \/ inner = <<>>
           \/ /\ Len(inner) % 2 = 1
              /\ \A i \in DOMAIN inner :
                     inner[i] = IF i % 2 = 1 THEN "m" ELSE ","

\* line 2000: a comma is put between a closing and an opening brace
RECURSIVE SeparateObjects(_)
SeparateObjects(text) ==
    IF Len(text) < 2 THEN text
    ELSE IF text[1] = "}" /\ text[2] = "{"
         THEN <<"}", ",">> \o SeparateObjects(Tail(text))
         ELSE <<text[1]>> \o SeparateObjects(Tail(text))

\* the substitutions of _attempt_json_fix, lines 1992-2009
FixedText(text) ==
    SeparateObjects(RemoveTrailingCommas(
        [i \in DOMAIN text |-> IF text[i] = "u" THEN "m" ELSE text[i]]))

NoText == <<"None">>

\* _attempt_json_fix: the fixed text if it loads, else None
AttemptJsonFix(text) == IF Loads(FixedText(text)) THEN FixedText(text) ELSE NoText

PlanLocation(id, name, latitude, longitude) ==
    [id |-> id, name |-> name, latitude |-> latitude, longitude |-> longitude]

\* the source_location and the destinations of _create_simple_json_response
SimpleJsonResponse ==
    [kind |-> "simple_json_response",
     sources |-> {PlanLocation(1, "Default Source", 0, 0)},
     destinations |-> {PlanLocation(1, "Default Destination", 0, 0)}]

\* what the service made of the request: not looked into
ParsedPlan == [kind |-> "parsed", sources |-> {}, destinations |-> {}]

NoPlan == [kind |-> "none", sources |-> {}, destinations |-> {}]

GeminiRequests ==
    {[sources |-> <<Src(101, "S1", 10, 10)>>, destinations |-> ds] :
        ds \in {<<SplitDestPool[1]>>, <<SplitDestPool[2], SplitDestPool[3]>>}}

GeminiInit ==
    /\ SeqIdle /\ MatIdle /\ SplitIdle /\ CostIdle /\ AssignIdle
    /\ CacheIdle /\ SummaryIdle
    /\ distance_matrix = <<>>
    /\ \E request \in GeminiRequests :
           sources = request.sources /\ destinations = request.destinations
    /\ aiEntry = "wizard"
    /\ aiIn \in {[text |-> t] : t \in ResponseTexts}
    /\ aiPc = "candidate"
    /\ aiAttempts = <<>>
    /\ aiClient = [content_text |-> aiIn.text, loaded |-> <<>>]
    /\ aiResult = NoPlan

geminiFrame == <<aiEntry, aiIn, aiAttempts, nonAiVars>>

\* lines 1803-1811
RemoveMarkdown ==
    /\ aiPc = "candidate"
    /\ aiClient' = [aiClient EXCEPT !.content_text = StripMarkdown(@)]
    /\ aiPc' = "boundaries"
    /\ UNCHANGED <<aiResult, geminiFrame>>

\* lines 1813-1819
FindJsonBoundaries ==
    /\ aiPc = "boundaries"
    /\ aiClient' = [aiClient EXCEPT !.content_text = ExtractJsonBoundaries(@)]
    /\ aiPc' = "cleanup"
    /\ UNCHANGED <<aiResult, geminiFrame>>

\* lines 1821-1828
FixTrailingCommas ==
    /\ aiPc = "cleanup"
    /\ aiClient' = [aiClient EXCEPT !.content_text = RemoveTrailingCommas(@)]
    /\ aiPc' = "loads"
    /\ UNCHANGED <<aiResult, geminiFrame>>

\* lines 1832-1835
ParseJson ==
    /\ aiPc = "loads"
    /\ aiClient' = [aiClient EXCEPT !.loaded = Append(@, aiClient.content_text)]
    /\ IF Loads(aiClient.content_text)
       THEN aiResult' = ParsedPlan /\ aiPc' = "returned"
       ELSE aiResult' = aiResult /\ aiPc' = "fix"
    /\ UNCHANGED geminiFrame

\* lines 1836-1851: the second attempt, then JSONDecodeError
ParseFixedJson ==
    /\ aiPc = "fix"
    /\ aiClient' = [aiClient EXCEPT !.loaded =
                       Append(@, AttemptJsonFix(aiClient.content_text))]
    /\ IF AttemptJsonFix(aiClient.content_text) # NoText
       THEN aiResult' = ParsedPlan /\ aiPc' = "returned"
       ELSE aiResult' = aiResult /\ aiPc' = "JSONDecodeError"
    /\ UNCHANGED geminiFrame

\* lines 1891-1897
ReturnSimpleJsonResponse ==
    /\ aiPc = "JSONDecodeError"
    /\ aiResult' = SimpleJsonResponse
    /\ aiPc' = "returned"
    /\ UNCHANGED <<aiClient, geminiFrame>>

GeminiNext ==
    \/ RemoveMarkdown
    \/ FindJsonBoundaries
    \/ FixTrailingCommas
    \/ ParseJson
    \/ ParseFixedJson
    \/ ReturnSimpleJsonResponse

SpecGemini == GeminiInit /\ [][GeminiNext]_vars

-----------------------------------------------------------------------------
(* Cost model.  Money is counted in millionths of a dirham (MAD), so that
   every product below is an integer; a reported amount of _calculate_costs
   is in hundredths (round(x, 2)).  Distances are in tenths of a km,
   durations in hundredths of an hour, rates and prices in hundredths of
   their unit, fuel consumption in tenths of a litre per 100 km. *)

\* round(x, 2) of a non-negative amount: millionths to hundredths, half to even
RoundCents(x) ==
    LET q == x \div 10000
        r == x % 10000
    IN  IF 2 * r < 10000 THEN q
        ELSE IF 2 * r > 10000 THEN q + 1
        ELSE IF q % 2 = 0 THEN q ELSE q + 1

\* `params.x or default`
OrDefault(x, default) == IF x # 0 THEN x ELSE default

DefaultFuelPrice == 1250

DefaultDriverRate == 2000

DefaultMaintenanceRate == 50

DefaultFuelConsumption == 250

\* BulkMissionWizard._calculate_costs(..., with_details=True)
CalculateCosts(in) ==
    LET fuel_price_per_liter == OrDefault(in.params.fuel_price_per_liter, DefaultFuelPrice)
        driver_cost_per_hour == OrDefault(in.params.driver_cost_per_hour, DefaultDriverRate)
        maintenance_cost_per_km ==
            OrDefault(in.params.maintenance_cost_per_km, DefaultMaintenanceRate)
        toll_cost_per_km == in.params.toll_cost_per_km
        base_mission_cost == in.params.base_mission_cost * 10000
        fuel_consumption == OrDefault(in.fuel_consumption, DefaultFuelConsumption)
        fuel_cost == in.distance * fuel_consumption * fuel_price_per_liter
        driver_cost == in.duration * driver_cost_per_hour * 100
        maintenance_cost == in.distance * maintenance_cost_per_km * 1000
        toll_cost == in.distance * toll_cost_per_km * 1000
        total_cost == base_mission_cost + fuel_cost + driver_cost + maintenance_cost + toll_cost
    IN  [total_cost |-> RoundCents(total_cost),
         base_cost |-> RoundCents(base_mission_cost),
         fuel_cost |-> RoundCents(fuel_cost),
         driver_cost |-> RoundCents(driver_cost),
         maintenance_cost |-> RoundCents(maintenance_cost),
         toll_cost |-> RoundCents(toll_cost)]

\* the constants of AiAnalystService.__init__, in the units above
BaseFuelPrice == 1250

FuelConsumption == 8

DriverCostPerHour == 2500

VehicleMaintenancePerKm == 50

InsuranceDaily == 5000

OverheadPercentage == 15

TollCostPer100Km == 1500

\* base_cost * (1 + overhead_percentage)
\* (WithoutOverhead: the same with no overhead added)
WithoutOverhead(base_cost) == base_cost

WithOverhead(base_cost) == base_cost + (base_cost \div 100) * OverheadPercentage

\* AiAnalystService.calculate_transport_cost
CalculateTransportCost(in) ==
    LET fuel_cost == (in.distance * FuelConsumption * BaseFuelPrice) \div 10
        driver_cost == in.duration * DriverCostPerHour * 100
        maintenance_cost == in.distance * VehicleMaintenancePerKm * 1000
        toll_cost == in.distance * TollCostPer100Km * 10
        insurance_cost == InsuranceDaily * 10000
        base_cost == fuel_cost + driver_cost + maintenance_cost + toll_cost + insurance_cost
        total_cost == WithOverhead(base_cost)
    IN  [fuel_cost |-> fuel_cost,
         driver_cost |-> driver_cost,
         maintenance_cost |-> maintenance_cost,
         toll_cost |-> toll_cost,
         insurance_cost |-> insurance_cost,
         overhead_cost |-> total_cost - base_cost,
         total_cost |-> total_cost]

CostParams(fuel, driver, maintenance, toll, base) ==
    [fuel_price_per_liter |-> fuel, driver_cost_per_hour |-> driver,
     maintenance_cost_per_km |-> maintenance, toll_cost_per_km |-> toll,
     base_mission_cost |-> base]

\* the record get_default_parameters creates, an all-zero record, and one
\* with uneven rates
ParameterSets ==
    { CostParams(1200, 2000, 40, 30, 5000),
      CostParams(0, 0, 0, 0, 0),
      CostParams(1337, 2222, 33, 7, 1001) }

CostInputs ==
    [distance : {0, 1, 123, 1000},
     duration : {0, 1, 150, 825},
     fuel_consumption : {0, 83, 250},
     params : ParameterSets]

CostInit ==
    /\ SeqIdle /\ MatIdle /\ SplitIdle /\ AiIdleOnly /\ AssignIdle
    /\ CacheIdle /\ SummaryIdle
    /\ sources = <<>> /\ destinations = <<>> /\ distance_matrix = <<>>
    /\ costIn \in CostInputs
    /\ costOut = <<>>
    /\ costPc = "start"

WizardCalculateCosts ==
    /\ costPc = "start"
    /\ costOut' = CalculateCosts(costIn)
    /\ costPc' = "wizard_done"
    /\ UNCHANGED <<costIn, nonCostVars>>

ServiceCalculateTransportCost ==
    /\ costPc = "start"
    /\ costOut' = CalculateTransportCost(costIn)
    /\ costPc' = "service_done"
    /\ UNCHANGED <<costIn, nonCostVars>>

CostNext == WizardCalculateCosts \/ ServiceCalculateTransportCost

SpecCost == CostInit /\ [][CostNext]_vars

-----------------------------------------------------------------------------
(* Mission Assembler: _assign_vehicles_and_drivers and _find_best_vehicle.
   Weights are in units of 100 kg and volumes in m3, so that the comparison
   of two utilisations stays within 32 bits. *)

MaxRoutes == 3

MaxFleet == 2

MaxDrivers == 2

\* None, for a vehicle and for a driver
NoVehicle == Vehicle(0, 0, 0)

NoDriver == 0

\* line 1645: the vehicle can handle the cargo
Suitable(weight, volume, vehicle) ==
    weight <= vehicle.max_payload /\ volume <= vehicle.cargo_volume

\* lines 1647-1648: a division by a capacity of zero raises ZeroDivisionError
FindBestVehicleRaises(weight, volume, available_vehicles) ==
    \E i \in DOMAIN available_vehicles :
        /\ Suitable(weight, volume, available_vehicles[i])
        /\ \/ available_vehicles[i].max_payload = 0
           \/ available_vehicles[i].cargo_volume = 0

\* abs(efficiency - 0.7) as the fraction num / den, with
\* efficiency = (weight / max_payload + volume / cargo_volume) / 2
Deviation(weight, volume, vehicle) ==
    [num |-> Abs(10 * (weight * vehicle.cargo_volume + volume * vehicle.max_payload)
                    - 14 * vehicle.max_payload * vehicle.cargo_volume),
     den |-> 20 * vehicle.max_payload * vehicle.cargo_volume]

\* a < b for two such fractions
Closer(a, b) == a.num * b.den < b.num * a.den

\* _find_best_vehicle, when it does not raise: the stable sort puts first the
\* earliest of the suitable vehicles closest to 0.7
FindBestVehicle(weight, volume, available_vehicles) ==
    IF available_vehicles = <<>> THEN NoVehicle
    ELSE LET suitable == {i \in DOMAIN available_vehicles :
                              Suitable(weight, volume, available_vehicles[i])}
             dev(i) == Deviation(weight, volume, available_vehicles[i])
         IN IF suitable # {}
            THEN available_vehicles[CHOOSE i \in suitable :
                     /\ \A j \in suitable : j < i => Closer(dev(i), dev(j))
                     /\ \A j \in suitable : j > i => ~Closer(dev(j), dev(i))]
            ELSE LargestVehicle(available_vehicles)

\* sorted(optimized_routes, key = total weight, reverse=True): heaviest first,
\* routes of equal weight in their original order
SortedRoutes(optimized_routes) ==
    LET weight(i) == TotalWeight(optimized_routes[i].destinations)
        rank(i) == 1 + Cardinality({j \in DOMAIN optimized_routes :
                        \/ weight(j) > weight(i)
                        \/ weight(j) = weight(i) /\ j < i})
    IN [k \in DOMAIN optimized_routes |->
            optimized_routes[CHOOSE i \in DOMAIN optimized_routes : rank(i) = k]]

\* lines 1593, 1621, 1622: the utilisation of the chosen vehicle divides by
\* its capacities
UtilisationRaises(best_vehicle) ==
    /\ best_vehicle # NoVehicle
    /\ best_vehicle.max_payload = 0 \/ best_vehicle.cargo_volume = 0

\* lines 1597-1626: the mission, reduced to its assignment
Mission(route_idx, route, best_vehicle, best_driver) ==
    [mission_id |-> route_idx, route |-> route,
     assigned_vehicle |-> best_vehicle, assigned_driver |-> best_driver]

\* ---- The assembler as a state machine ----

AssignRoute(dests) == [destinations |-> dests]

AssignRoutePool ==
    << AssignRoute(<<Dest(1, "A", 10, 20, 0, 0)>>),
       AssignRoute(<<Dest(2, "B", 20, 20, 6, 2), Dest(3, "C", 20, 10, 8, 5)>>),
       AssignRoute(<<Dest(4, "D", 25, 12, 14, 3)>>),
       AssignRoute(<<Dest(5, "E", 13, 16, 50, 12)>>),
       AssignRoute(<<Dest(6, "F", 12, 21, 18, 9)>>) >>

AssignVehiclePool ==
    << Vehicle(1, 20, 10), Vehicle(2, 40, 10), Vehicle(3, 0, 5),
       Vehicle(4, 20, 0), Vehicle(5, 20, 10) >>

\* the lists of at most n distinct elements of a pool
Picks(pool, n) ==
    {[i \in DOMAIN p |-> pool[p[i]]] :
        p \in {q \in SeqsUpTo(DOMAIN pool, n) : \A i, j \in DOMAIN q : i # j => q[i] # q[j]}}

AssignInit ==
    /\ SeqIdle /\ MatIdle /\ SplitIdle /\ AiIdle
    /\ CacheIdle /\ SummaryIdle
    /\ sources = <<>> /\ destinations = <<>> /\ distance_matrix = <<>>
    /\ \E rs \in Picks(AssignRoutePool, MaxRoutes),
          vs \in Picks(AssignVehiclePool, MaxFleet),
          n \in 0..MaxDrivers :
           assignIn = [optimized_routes |-> rs, vehicles |-> vs,
                       drivers |-> [i \in 1..n |-> i]]
    /\ assign = <<>>
    /\ assignPc = "start"

\* before the first call of _find_best_vehicle
NotCalled ==
    [weight |-> 0, volume |-> 0, available_vehicles |-> <<>>,
     result |-> NoVehicle, raised |-> FALSE]

\* lines 1567-1574
SortRoutes ==
    /\ assignPc = "start"
    /\ assign' = [mission_assignments |-> <<>>,
                  available_vehicles |-> assignIn.vehicles,
                  available_drivers |-> assignIn.drivers,
                  sorted_routes |-> SortedRoutes(assignIn.optimized_routes),
                  route_idx |-> 0,
                  found |-> NotCalled]
    /\ assignPc' = "loop"
    /\ UNCHANGED <<assignIn, nonAssignVars>>

nextRoute == assign.sorted_routes[assign.route_idx + 1]

nextWeight == TotalWeight(nextRoute.destinations)

nextVolume == TotalVolume(nextRoute.destinations)

\* the call of _find_best_vehicle at line 1582: its arguments and what it returned
Found(result, raised) ==
    [weight |-> nextWeight, volume |-> nextVolume,
     available_vehicles |-> assign.available_vehicles,
     result |-> result, raised |-> raised]

\* lines 1576-1628: one iteration of the loop
AssignMission ==
    /\ assignPc = "loop"
    /\ assign.route_idx < Len(assign.sorted_routes)
    /\ ~FindBestVehicleRaises(nextWeight, nextVolume, assign.available_vehicles)
    /\ LET best_vehicle == FindBestVehicle(nextWeight, nextVolume, assign.available_vehicles)
           best_driver == IF assign.available_drivers # <<>>
                          THEN Head(assign.available_drivers) ELSE NoDriver
       IN /\ ~UtilisationRaises(best_vehicle)
          /\ assign' = [assign EXCEPT
                 !.available_vehicles =
                     IF best_vehicle # NoVehicle
                     THEN RemoveAt(@, IndexOf(@, best_vehicle)) ELSE @,
                 !.available_drivers = IF @ # <<>> THEN Tail(@) ELSE @,
                 !.mission_assignments =
                     Append(@, Mission(assign.route_idx + 1, nextRoute,
                                       best_vehicle, best_driver)),
                 !.route_idx = @ + 1,
                 !.found = Found(best_vehicle, FALSE)]
    /\ UNCHANGED <<assignIn, assignPc, nonAssignVars>>

\* the ZeroDivisionError of _find_best_vehicle leaves the assembler
FindBestVehicleFails ==
    /\ assignPc = "loop"
    /\ assign.route_idx < Len(assign.sorted_routes)
    /\ FindBestVehicleRaises(nextWeight, nextVolume, assign.available_vehicles)
    /\ assign' = [assign EXCEPT !.found = Found(NoVehicle, TRUE)]
    /\ assignPc' = "find_raised"
    /\ UNCHANGED <<assignIn, nonAssignVars>>

\* the ZeroDivisionError of lines 1593, 1621 and 1622
UtilisationFails ==
    /\ assignPc = "loop"
    /\ assign.route_idx < Len(assign.sorted_routes)
    /\ ~FindBestVehicleRaises(nextWeight, nextVolume, assign.available_vehicles)
    /\ UtilisationRaises(FindBestVehicle(nextWeight, nextVolume, assign.available_vehicles))
    /\ assign' = [assign EXCEPT
           !.found = Found(FindBestVehicle(nextWeight, nextVolume,
                                           assign.available_vehicles), FALSE)]
    /\ assignPc' = "raised"
    /\ UNCHANGED <<assignIn, nonAssignVars>>

\* line 1631
AssignReturn ==
    /\ assignPc = "loop"
    /\ assign.route_idx = Len(assign.sorted_routes)
    /\ assignPc' = "done"
    /\ UNCHANGED <<assignIn, assign, nonAssignVars>>

AssignNext ==
    SortRoutes \/ AssignMission \/ FindBestVehicleFails \/ UtilisationFails \/ AssignReturn

SpecAssign == AssignInit /\ [][AssignNext]_vars

-----------------------------------------------------------------------------
(* Route cache: RouteCache.generate_route_hash, get_cached_route and
   cache_route, called by TransportMission._compute_total_distance.
   A waypoint is <<latitude, longitude>> in tenths of a degree.  Distances are
   kept in metres (1000 * route_distance) and durations in seconds
   (60 * route_duration).  Several computations run at once and interleave at
   their accesses to the table. *)

MaxWaypointDest == 2

Computations == {1, 2}

SourcePoint == <<10, 10>>

WaypointPool == << <<10, 20>>, <<30, 10>>, <<12, 11>> >>

\* key=lambda x: (x[0], x[1])
Before(a, b) == a[1] < b[1] \/ (a[1] = b[1] /\ a[2] < b[2])

\* sorted(waypoints[1:], key=...)
SortedWaypoints(ws) ==
    LET rank(i) == 1 + Cardinality({j \in DOMAIN ws :
                        \/ Before(ws[j], ws[i])
                        \/ ~Before(ws[i], ws[j]) /\ j < i})
    IN [k \in DOMAIN ws |-> ws[CHOOSE i \in DOMAIN ws : rank(i) = k]]

\* generate_route_hash: the MD5 of the normalised list is represented by the
\* normalised list itself
GenerateRouteHash(waypoints) ==
    IF Len(waypoints) > 2
    THEN <<waypoints[1]>> \o SortedWaypoints(Tail(waypoints))
    ELSE waypoints

\* self.search([('route_hash', '=', route_hash)], limit=1)
Search(rows, route_hash) == {i \in DOMAIN rows : rows[i].route_hash = route_hash}

First(indices) == CHOOSE i \in indices : \A j \in indices : i <= j

NoRouteData == [kind |-> "none", distance |-> 0, duration |-> 0]

\* get_cached_route: what it returns (None is found = FALSE)
GetCachedRoute(rows, waypoints) ==
    LET found == Search(rows, GenerateRouteHash(waypoints))
    IN IF found # {}
       THEN [cached |-> TRUE,
             distance |-> rows[First(found)].route_distance,
             duration |-> rows[First(found)].route_duration,
             is_fallback |-> rows[First(found)].is_fallback]
       ELSE [cached |-> FALSE, distance |-> 0, duration |-> 0, is_fallback |-> FALSE]

\* get_cached_route, lines 52-55: the usage statistics of the row found
Touch(rows, waypoints) ==
    LET found == Search(rows, GenerateRouteHash(waypoints))
    IN IF found # {}
       THEN [rows EXCEPT ![First(found)].use_count = @ + 1]
       ELSE rows

RECURSIVE LegsTotal(_, _)

\* the sum over the consecutive waypoints of a per-leg length
LegsTotal(waypoints, road) ==
    IF Len(waypoints) < 2 THEN 0
    ELSE LET h == HaversineDistance(waypoints[1][1], waypoints[1][2],
                                    waypoints[2][1], waypoints[2][2])
         IN (IF road THEN (h * 13) \div 10 ELSE h) + LegsTotal(Tail(waypoints), road)

\* the route the OSRM service answers for the waypoints in their order
OsrmRoute(waypoints) ==
    [kind |-> "osrm",
     distance |-> LegsTotal(waypoints, TRUE),
     duration |-> LegsTotal(waypoints, TRUE) \div 14]

\* _create_fallback_route: straight lines at 50 km/h
CreateFallbackRoute(waypoints) ==
    [kind |-> "fallback",
     distance |-> LegsTotal(waypoints, FALSE),
     duration |-> (LegsTotal(waypoints, FALSE) * 72) \div 1000]

\* cache_route, lines 77-99: the row to create
CacheData(waypoints, data) ==
    [route_hash |-> GenerateRouteHash(waypoints),
     waypoints |-> waypoints,
     route_distance |-> data.distance,
     route_duration |-> data.duration,
     is_fallback |-> data.kind = "fallback",
     use_count |-> 1]

\* a faulty variant: a create that replaces the row of the same hash
CreateOrReplace(rows, row) ==
    IF Search(rows, row.route_hash) # {}
    THEN [rows |-> [rows EXCEPT ![First(Search(rows, row.route_hash))] = row],
          created |-> TRUE]
    ELSE [rows |-> Append(rows, row), created |-> TRUE]

\* self.create(cache_data) under unique(route_hash): the row is added, or the
\* constraint rejects it
Create(rows, row) ==
    IF Search(rows, row.route_hash) # {}
    THEN [rows |-> rows, created |-> FALSE]
    ELSE [rows |-> Append(rows, row), created |-> TRUE]

\* lines 149-151 after a fresh calculation (lines 134-141)
TakeRouteData(c, data) ==
    [c EXCEPT !.pc = "done", !.pending = NoRouteData,
              !.total_distance_km = data.distance,
              !.estimated_duration_minutes = data.duration,
              !.distance_calculation_method =
                  IF data.kind = "fallback" THEN "haversine" ELSE "osrm"]

\* an ended call of cache_route
Logged(p, data, outcome) ==
    [proc |-> p, waypoints |-> computations[p].waypoints,
     distance |-> data.distance, duration |-> data.duration, outcome |-> outcome]

WaypointLists == {<<SourcePoint>> \o ds : ds \in Picks(WaypointPool, MaxWaypointDest)}

\* a mission before its distance is computed, or with a distance the widget set
MissionsToCompute ==
    {[waypoints |-> ws, pc |-> "start", pending |-> NoRouteData,
      total_distance_km |-> IF set THEN OsrmRoute(ws).distance ELSE 0,
      estimated_duration_minutes |-> 0,
      distance_calculation_method |-> "osrm"] :
        ws \in WaypointLists, set \in BOOLEAN}

CacheInit ==
    /\ SeqIdle /\ MatIdle /\ SplitIdle /\ AiIdle /\ AssignIdle /\ SummaryIdle
    /\ sources = <<>> /\ destinations = <<>> /\ distance_matrix = <<>>
    /\ route_cache = <<>>
    /\ computations \in [Computations -> MissionsToCompute]
    /\ cacheLog = <<>>

\* lines 103-105
WidgetDistance(c) ==
    c.distance_calculation_method = "osrm" /\ c.total_distance_km > 0

SkipWidgetDistance(p) ==
    /\ computations[p].pc = "start"
    /\ WidgetDistance(computations[p])
    /\ computations' = [computations EXCEPT ![p].pc = "done"]
    /\ UNCHANGED <<route_cache, cacheLog, nonCacheVars>>

\* lines 107-120 and 149-151: fewer than two waypoints
NoRoute(p) ==
    /\ computations[p].pc = "start"
    /\ ~WidgetDistance(computations[p])
    /\ Len(computations[p].waypoints) < 2
    /\ computations' = [computations EXCEPT ![p] = TakeRouteData(@, OsrmRoute(<<>>))]
    /\ UNCHANGED <<route_cache, cacheLog, nonCacheVars>>

\* lines 122-129: get_cached_route and its use
CacheLookup(p) ==
    /\ computations[p].pc = "start"
    /\ ~WidgetDistance(computations[p])
    /\ Len(computations[p].waypoints) >= 2
    /\ LET cached_route == GetCachedRoute(route_cache, computations[p].waypoints)
       IN IF cached_route.cached
          THEN computations' = [computations EXCEPT
                   ![p].pc = "done",
                   ![p].total_distance_km = cached_route.distance,
                   ![p].estimated_duration_minutes = cached_route.duration,
                   ![p].distance_calculation_method = "cached"]
          ELSE computations' = [computations EXCEPT ![p].pc = "request"]
    /\ route_cache' = Touch(route_cache, computations[p].waypoints)
    /\ UNCHANGED <<cacheLog, nonCacheVars>>

\* _calculate_and_cache_route, lines 545-578: the request succeeds or fails
RouteRequest(p) ==
    /\ computations[p].pc = "request"
    /\ \E ok \in BOOLEAN :
           computations' = [computations EXCEPT
               ![p].pc = "search",
               ![p].pending = IF ok THEN OsrmRoute(computations[p].waypoints)
                              ELSE CreateFallbackRoute(computations[p].waypoints)]
    /\ UNCHANGED <<route_cache, cacheLog, nonCacheVars>>

\* cache_route, lines 70-75: an existing row is returned as it is
CacheRouteSearch(p) ==
    /\ computations[p].pc = "search"
    /\ IF Search(route_cache, GenerateRouteHash(computations[p].waypoints)) # {}
       THEN /\ computations' = [computations EXCEPT
                    ![p] = TakeRouteData(@, computations[p].pending)]
            /\ cacheLog' = Append(cacheLog, Logged(p, computations[p].pending, "existing"))
       ELSE /\ computations' = [computations EXCEPT ![p].pc = "create"]
            /\ cacheLog' = cacheLog
    /\ UNCHANGED <<route_cache, nonCacheVars>>

\* cache_route, line 104.  A rejected create raises: inside the try of line 545
\* the handler of line 575 takes the fallback route and calls cache_route
\* again; inside that handler the error reaches line 142 and the distance is 0.
CacheRouteCreate(p) ==
    /\ computations[p].pc = "create"
    /\ LET data == computations[p].pending
           made == Create(route_cache, CacheData(computations[p].waypoints, data))
       IN /\ route_cache' = made.rows
          /\ cacheLog' = Append(cacheLog,
                 Logged(p, data, IF made.created THEN "created" ELSE "IntegrityError"))
          /\ computations' = [computations EXCEPT ![p] =
                 IF made.created THEN TakeRouteData(@, data)
                 ELSE IF data.kind = "osrm"
                 THEN [@ EXCEPT !.pc = "search",
                                !.pending = CreateFallbackRoute(computations[p].waypoints)]
                 ELSE TakeRouteData(@, OsrmRoute(<<>>))]
    /\ UNCHANGED nonCacheVars

CacheNext ==
    \E p \in Computations :
        \/ SkipWidgetDistance(p)
        \/ NoRoute(p)
        \/ CacheLookup(p)
        \/ RouteRequest(p)
        \/ CacheRouteSearch(p)
        \/ CacheRouteCreate(p)

SpecCache == CacheInit /\ [][CacheNext]_vars

-----------------------------------------------------------------------------
(* Manual recalculation: TransportMission.action_recalculate_distance and
   update_distance_from_widget, on top of _compute_total_distance above.  A
   mission is idle between calls; old_distance is the local of line 353. *)

MaxRecalculations == 2

\* the distances (metres) the widget may send: none, and one no route has
WidgetDistances == {0, 5000}

RecalculationWaypointLists == {ws \in WaypointLists : Len(ws) <= 2}

\* a mission as created: default method 'osrm', no distance yet
IdleMissions ==
    {[waypoints |-> ws, pc |-> "idle", pending |-> NoRouteData,
      total_distance_km |-> 0, estimated_duration_minutes |-> 0,
      distance_calculation_method |-> "osrm",
      old_distance |-> 0, old_method |-> "osrm", recalculations |-> 0] :
        ws \in RecalculationWaypointLists}

RecalculateInit ==
    /\ SeqIdle /\ MatIdle /\ SplitIdle /\ AiIdle /\ AssignIdle /\ SummaryIdle
    /\ sources = <<>> /\ destinations = <<>> /\ distance_matrix = <<>>
    /\ route_cache = <<>>
    /\ computations \in [Computations -> IdleMissions]
    /\ cacheLog = <<>>

\* existing_cache.unlink(), lines 364-367
Unlink(rows, route_hash) ==
    LET other(row) == row.route_hash # route_hash
    IN SelectSeq(rows, other)

\* update_distance_from_widget, lines 385-394
UpdateDistanceFromWidget(p) ==
    /\ computations[p].pc = "idle"
    /\ \E distance_km \in WidgetDistances :
           /\ distance_km # computations[p].total_distance_km
           /\ computations' = [computations EXCEPT
                  ![p].total_distance_km = distance_km,
                  ![p].estimated_duration_minutes = 0,
                  ![p].distance_calculation_method = "osrm"]
    /\ UNCHANGED <<route_cache, cacheLog, nonCacheVars>>

\* action_recalculate_distance, lines 353-370: the cache entry of the current
\* waypoints is removed, then _compute_total_distance is called
ActionRecalculateDistance(p) ==
    /\ computations[p].pc = "idle"
    /\ computations[p].recalculations < MaxRecalculations
    /\ route_cache' =
           IF Len(computations[p].waypoints) >= 2
           THEN Unlink(route_cache, GenerateRouteHash(computations[p].waypoints))
           ELSE route_cache
    /\ computations' = [computations EXCEPT
           ![p].pc = "start",
           ![p].old_distance = computations[p].total_distance_km,
           ![p].old_method = computations[p].distance_calculation_method,
           ![p].recalculations = @ + 1]
    /\ UNCHANGED <<cacheLog, nonCacheVars>>

\* lines 372-383: the notification is returned
RecalculateReturn(p) ==
    /\ computations[p].pc = "done"
    /\ computations' = [computations EXCEPT ![p].pc = "idle"]
    /\ UNCHANGED <<route_cache, cacheLog, nonCacheVars>>

RecalculateNext ==
    \E p \in Computations :
        \/ UpdateDistanceFromWidget(p)
        \/ ActionRecalculateDistance(p)
        \/ SkipWidgetDistance(p)
        \/ NoRoute(p)
        \/ CacheLookup(p)
        \/ RouteRequest(p)
        \/ CacheRouteSearch(p)
        \/ CacheRouteCreate(p)
        \/ RecalculateReturn(p)

SpecRecalculate == RecalculateInit /\ [][RecalculateNext]_vars

-----------------------------------------------------------------------------
(* The fallback of optimize_bulk_missions:
   AiAnalystService._enhanced_fallback_optimization, one action per iteration
   of its loop over the sources. *)

MaxFallbackDest == 5

\* destinations[i*3:(i+1)*3]
SliceSize == 3

Slice(dests, i) ==
    SubSeq(dests, i * SliceSize + 1,
           IF (i + 1) * SliceSize < Len(dests) THEN (i + 1) * SliceSize ELSE Len(dests))

\* `vehicles[i] if i < len(vehicles) else vehicles[0] if vehicles else None`
\* (the same expression for drivers; 0 is None)
IthOrFirst(s, i) ==
    IF i < Len(s) THEN s[i + 1] ELSE IF s # <<>> THEN s[1] ELSE 0

\* sources[:len(vehicles)]
LoopSources(srcs, fleet) ==
    SubSeq(srcs, 1, IF Len(fleet) < Len(srcs) THEN Len(fleet) ELSE Len(srcs))

\* the optimized_mission of iteration i
FallbackMission(i, source, vehicle, driver, mission_destinations) ==
    [mission_id |-> i + 1,
     assigned_vehicle |-> vehicle,
     assigned_driver |-> driver,
     source_id |-> source.id,
     destinations |-> [idx \in DOMAIN mission_destinations |->
                          [destination_id |-> mission_destinations[idx].id,
                           sequence |-> idx]],
     total_distance_km |-> Len(mission_destinations) * 20]

FallbackInit ==
    /\ MatIdle /\ SplitIdle /\ AiIdle /\ CacheIdle /\ SummaryIdle
    /\ nn = <<>> /\ opt = <<>> /\ seqPc = "idle" /\ seqOut = <<>>
    /\ distance_matrix = <<>>
    /\ sources \in SourceLists
    /\ \E n \in 1..MaxFallbackDest : destinations = SubSeq(SplitDestPool, 1, n)
    /\ \E fleet \in Fleets \ {<<>>}, n \in 1..MaxDrivers :
           assignIn = [available_vehicles |-> [k \in DOMAIN fleet |-> fleet[k].id],
                       available_drivers |-> [k \in 1..n |-> k]]
    /\ assign = [i |-> 0, optimized_missions |-> <<>>]
    /\ assignPc = "loop"

\* one iteration of the loop of lines 1087-1170
FallbackIteration ==
    /\ assignPc = "loop"
    /\ assign.i < Len(LoopSources(sources, assignIn.available_vehicles))
    /\ LET i == assign.i
           vehicle == IthOrFirst(assignIn.available_vehicles, i)
           driver == IthOrFirst(assignIn.available_drivers, i)
           mission_destinations == Slice(destinations, i)
       IN  assign' = [i |-> i + 1,
                      optimized_missions |->
                          IF vehicle # 0 /\ driver # 0 /\ mission_destinations # <<>>
                          THEN Append(assign.optimized_missions,
                                      FallbackMission(i, sources[i + 1], vehicle, driver,
                                                      mission_destinations))
                          ELSE assign.optimized_missions]
    /\ UNCHANGED <<assignIn, assignPc, nonAssignVars>>

\* lines 1172-1194
FallbackReturn ==
    /\ assignPc = "loop"
    /\ assign.i >= Len(LoopSources(sources, assignIn.available_vehicles))
    /\ assignPc' = "returned"
    /\ UNCHANGED <<assignIn, assign, nonAssignVars>>

FallbackNext == FallbackIteration \/ FallbackReturn

SpecFallback == FallbackInit /\ [][FallbackNext]_vars

-----------------------------------------------------------------------------
(* Mission creation from a stored plan:
   BulkMissionWizard.create_missions_from_ai_results.  A plan entry is the
   list of its destinations, each one the side of now on which its
   estimated_arrival_time lies; a mission record is the index of its entry
   and the destinations created for it.  One step per record created. *)

MaxPlanEntries == 2

MaxEntryDest == 2

ArrivalTimes == {"future", "past"}

Plans == SeqsUpTo(SeqsUpTo(ArrivalTimes, MaxEntryDest), MaxPlanEntries)

\* _check_future_time: `expected_time < now` raises ValidationError
CheckFutureTimeRaises(expected_arrival_time) == expected_arrival_time = "past"

CreateInit ==
    /\ MatIdle /\ SplitIdle /\ AiIdle /\ CacheIdle /\ SummaryIdle /\ SeqIdle
    /\ sources = <<>> /\ destinations = <<>> /\ distance_matrix = <<>>
    /\ assignIn \in {[created_missions_data |-> plan] : plan \in Plans}
    /\ assign = [missions |-> <<>>, created_missions |-> <<>>,
                 ai_optimization_result |-> TRUE, entry |-> 1, mission |-> 0]
    /\ assignPc = "start"

missions_data == assignIn.created_missions_data

\* lines 1343-1344
NoMissionsInResults ==
    /\ assignPc = "start"
    /\ missions_data = <<>>
    /\ assignPc' = "raised"
    /\ UNCHANGED <<assignIn, assign, nonAssignVars>>

\* line 1368: self.env['transport.mission'].create(mission_vals)
CreateMission ==
    /\ assignPc \in {"start", "next"}
    /\ assign.entry <= Len(missions_data)
    /\ assign' = [assign EXCEPT
           !.missions = Append(@, [entry |-> assign.entry, destinations |-> <<>>]),
           !.mission = Len(assign.missions) + 1]
    /\ assignPc' = "destinations"
    /\ UNCHANGED <<assignIn, nonAssignVars>>

\* lines 1371-1389: one destination is created; a constraint that rejects it
\* ends the entry at the handler of lines 1405-1407.  Nothing undoes the
\* records made so far, and the record that was rejected is in the table or
\* not, as the ORM leaves it.
CreatePlanDestination ==
    /\ assignPc = "destinations"
    /\ LET dests == missions_data[assign.entry]
           made == assign.missions[assign.mission].destinations
           seq == Len(made) + 1
       IN  /\ seq <= Len(dests)
           /\ IF CheckFutureTimeRaises(dests[seq])
              THEN /\ \E kept \in BOOLEAN :
                        assign' = [assign EXCEPT
                            !.missions[assign.mission].destinations =
                                IF kept THEN Append(@, dests[seq]) ELSE @,
                            !.entry = @ + 1]
                   /\ assignPc' = "next"
              ELSE /\ assign' = [assign EXCEPT
                          !.missions[assign.mission].destinations = Append(@, dests[seq])]
                   /\ assignPc' = assignPc
    /\ UNCHANGED <<assignIn, nonAssignVars>>

\* lines 1391-1403: the mission is complete
AppendCreatedMission ==
    /\ assignPc = "destinations"
    /\ Len(assign.missions[assign.mission].destinations) = Len(missions_data[assign.entry])
    /\ assign' = [assign EXCEPT !.created_missions = Append(@, assign.mission),
                                !.entry = @ + 1]
    /\ assignPc' = "next"
    /\ UNCHANGED <<assignIn, nonAssignVars>>

\* lines 1409-1410 and 1436-1440: UserError, the transaction of the call is
\* rolled back
FailedToCreateAny ==
    /\ assignPc = "next"
    /\ assign.entry > Len(missions_data)
    /\ assign.created_missions = <<>>
    /\ assign' = [assign EXCEPT !.missions = <<>>]
    /\ assignPc' = "raised"
    /\ UNCHANGED <<assignIn, nonAssignVars>>

\* lines 1412-1432
ClearResultAndReturn ==
    /\ assignPc = "next"
    /\ assign.entry > Len(missions_data)
    /\ assign.created_missions # <<>>
    /\ assign' = [assign EXCEPT !.ai_optimization_result = FALSE]
    /\ assignPc' = "returned"
    /\ UNCHANGED <<assignIn, nonAssignVars>>

CreateNext ==
    \/ NoMissionsInResults
    \/ CreateMission
    \/ CreatePlanDestination
    \/ AppendCreatedMission
    \/ FailedToCreateAny
    \/ ClearResultAndReturn

SpecCreate == CreateInit /\ [][CreateNext]_vars

-----------------------------------------------------------------------------
(* Mission type summary: TransportMission._compute_mission_type_summary.
   A destination is represented by its mission_type; "" is a type left unset. *)

MaxTypeDest == 4

MissionTypes == {"pickup", "delivery", ""}

RECURSIVE Join(_, _)

\* " + ".join(summary_parts)
Join(sep, parts) ==
    IF parts = <<>> THEN ""
    ELSE IF Len(parts) = 1 THEN parts[1]
    ELSE parts[1] \o sep \o Join(sep, Tail(parts))

\* a faulty variant: the pickups are left out of the summary
SummaryStringDeliveriesOnly(pickup_count, delivery_count) ==
    LET summary_parts ==
            IF delivery_count > 0
            THEN <<ToString(delivery_count) \o " Deliver"
                     \o (IF delivery_count > 1 THEN "ies" ELSE "y")>>
            ELSE <<>>
    IN IF summary_parts # <<>> THEN Join(" + ", summary_parts) ELSE "No Destinations"

\* lines 180-187
SummaryString(pickup_count, delivery_count) ==
    LET summary_parts ==
            (IF pickup_count > 0
             THEN <<ToString(pickup_count) \o " Pickup"
                      \o (IF pickup_count > 1 THEN "s" ELSE "")>>
             ELSE <<>>)
            \o
            (IF delivery_count > 0
             THEN <<ToString(delivery_count) \o " Deliver"
                      \o (IF delivery_count > 1 THEN "ies" ELSE "y")>>
             ELSE <<>>)
    IN IF summary_parts # <<>> THEN Join(" + ", summary_parts) ELSE "No Destinations"

\* mission.destination_ids.filtered(lambda d: d.mission_type == type)
FilteredByType(destination_ids, type) ==
    SelectSeq(destination_ids, LAMBDA d : d = type)

\* lines 172-187, for one mission
MissionTypeSummary(destination_ids) ==
    LET pickup_destinations == FilteredByType(destination_ids, "pickup")
        delivery_destinations == FilteredByType(destination_ids, "delivery")
    IN [pickup_count |-> Len(pickup_destinations),
        delivery_count |-> Len(delivery_destinations),
        mission_type_summary |->
            SummaryString(Len(pickup_destinations), Len(delivery_destinations))]

\* a mission just created, as in test_mission_types: no destinations yet
SummaryInit ==
    /\ SeqIdle /\ MatIdle /\ SplitIdle /\ AiIdle /\ AssignIdle /\ CacheIdle
    /\ sources = <<>> /\ destinations = <<>> /\ distance_matrix = <<>>
    /\ mission = [destination_ids |-> <<>>, pickup_count |-> 0,
                  delivery_count |-> 0, mission_type_summary |-> ""]
    /\ summaryPc = "stale"

\* env['transport.destination'].create({... 'mission_type': type})
CreateDestination ==
    /\ Len(mission.destination_ids) < MaxTypeDest
    /\ \E type \in MissionTypes :
           mission' = [mission EXCEPT !.destination_ids = Append(@, type)]
    /\ summaryPc' = "stale"
    /\ UNCHANGED nonSummaryVars

\* a destination's mission_type is written
WriteMissionType ==
    /\ \E i \in DOMAIN mission.destination_ids, type \in MissionTypes :
           /\ mission.destination_ids[i] # type
           /\ mission' = [mission EXCEPT !.destination_ids[i] = type]
    /\ summaryPc' = "stale"
    /\ UNCHANGED nonSummaryVars

\* a destination is unlinked
UnlinkDestination ==
    /\ \E i \in DOMAIN mission.destination_ids :
           mission' = [mission EXCEPT !.destination_ids = RemoveAt(@, i)]
    /\ summaryPc' = "stale"
    /\ UNCHANGED nonSummaryVars

\* mission._compute_mission_type_summary()
ComputeMissionTypeSummary ==
    /\ summaryPc = "stale"
    /\ LET computed == MissionTypeSummary(mission.destination_ids)
       IN mission' = [mission EXCEPT
              !.pickup_count = computed.pickup_count,
              !.delivery_count = computed.delivery_count,
              !.mission_type_summary = computed.mission_type_summary]
    /\ summaryPc' = "computed"
    /\ UNCHANGED nonSummaryVars

SummaryNext ==
    CreateDestination \/ WriteMissionType \/ UnlinkDestination \/ ComputeMissionTypeSummary

SpecSummary == SummaryInit /\ [][SummaryNext]_vars

-----------------------------------------------------------------------------
(* Route optimization of one mission: TransportMission.action_optimize_route.
   The table of transport.destination is a function from the ids that exist
   to the mission and the sequence of the record; the action is called on
   mission 1, one step per write of its loop. *)

MaxOptDest == 3

DestinationIds == 1..MaxOptDest

\* an id no record has
MissingId == MaxOptDest + 1

Self == 1

MissionIds == {1, 2}

\* the records of mission m, and their sequences 1..n in the order of the ids
DestinationsOf(table, m) == {d \in DOMAIN table : table[d].mission_id = m}

DestinationTables ==
    {[d \in DestinationIds |->
         [mission_id |-> owner[d],
          sequence |-> Cardinality({e \in DestinationIds : owner[e] = owner[d] /\ e <= d})]] :
        owner \in [DestinationIds -> MissionIds]}

\* what optimize_route may return in optimized_sequence
OptimizedSequences == SeqsUpTo(DestinationIds \cup {MissingId}, MaxOptDest)

OptimizeInit ==
    /\ SeqIdle /\ MatIdle /\ SplitIdle /\ AiIdle /\ AssignIdle /\ CacheIdle
    /\ sources = <<>> /\ destinations = <<>> /\ distance_matrix = <<>>
    /\ \E table \in DestinationTables :
           mission = [table |-> table, before |-> table, optimized_ids |-> <<>>, written |-> 0]
    /\ summaryPc = "start"

\* lines 298-299
TooFewDestinations ==
    /\ summaryPc = "start"
    /\ Cardinality(DestinationsOf(mission.table, Self)) < 2
    /\ summaryPc' = "raised"
    /\ UNCHANGED <<mission, nonSummaryVars>>

\* lines 311-317: optimize_route raises, or returns no optimized_sequence, or
\* returns a list of ids
CallOptimizeRoute ==
    /\ summaryPc = "start"
    /\ Cardinality(DestinationsOf(mission.table, Self)) >= 2
    /\ \/ summaryPc' = "raised" /\ UNCHANGED mission
       \/ \E optimized_ids \in OptimizedSequences :
              IF optimized_ids = <<>>
              THEN summaryPc' = "raised" /\ UNCHANGED mission
              ELSE /\ mission' = [mission EXCEPT !.optimized_ids = optimized_ids]
                   /\ summaryPc' = "savepoint"
    /\ UNCHANGED nonSummaryVars

\* lines 319-321: browse(dest_id).write({'sequence': new_sequence}); a write
\* to an id without record raises, the savepoint is rolled back and the
\* error is raised again as UserError (lines 346-348)
WriteSequence ==
    /\ summaryPc = "savepoint"
    /\ mission.written < Len(mission.optimized_ids)
    /\ LET new_sequence == mission.written + 1
           dest_id == mission.optimized_ids[new_sequence]
       IN  IF dest_id \in DOMAIN mission.table
           THEN /\ mission' = [mission EXCEPT !.table[dest_id].sequence = new_sequence,
                                              !.written = new_sequence]
                /\ summaryPc' = summaryPc
           ELSE /\ mission' = [mission EXCEPT !.table = mission.before]
                /\ summaryPc' = "raised"
    /\ UNCHANGED nonSummaryVars

\* lines 323-341
OptimizeReturn ==
    /\ summaryPc = "savepoint"
    /\ mission.written = Len(mission.optimized_ids)
    /\ summaryPc' = "done"
    /\ UNCHANGED <<mission, nonSummaryVars>>

OptimizeNext == TooFewDestinations \/ CallOptimizeRoute \/ WriteSequence \/ OptimizeReturn

SpecOptimize == OptimizeInit /\ [][OptimizeNext]_vars

-----------------------------------------------------------------------------
(* Claims *)

\* C1: the sequence returned by _nearest_neighbor_tsp followed by
\* _two_opt_improvement holds exactly the input destinations, each as often
\* as the input does, whatever the matrix (complete, partial or empty).
C1_SequencerPermutation ==
    seqPc = "done" => IsPermutation(seqOut, destinations)

\* a reordered route of four destinations over a matrix with keys missing
C1_Witness ==
    /\ seqPc = "done"
    /\ Len(destinations) = 4
    /\ seqOut # destinations
    /\ DOMAIN distance_matrix # Keys(Len(sources) + Len(destinations))
    /\ DOMAIN distance_matrix # {}

AllPoints == sources \o destinations

AllValid == \A i \in DOMAIN AllPoints : HasCoordinates(AllPoints[i])

\* the service answered the pair k itself (the cell exists and is not null)
Answered(k) == osrm.kind = "ok" /\ UsesOsrm(osrm, k[1], k[2])

\* C3: for N points that all have coordinates the matrix has exactly the
\* N*(N-1) ordered pairs i # j, whatever the service returned, and a pair
\* the service did not answer carries the Haversine fallback entry.
C3_MatrixComplete ==
    (matPc = "done" /\ AllValid) =>
        /\ DOMAIN distance_matrix = Keys(Len(AllPoints))
        /\ Cardinality(DOMAIN distance_matrix) = Len(AllPoints) * (Len(AllPoints) - 1)
        /\ \A k \in Keys(Len(AllPoints)) :
               ~Answered(k) =>
                   distance_matrix[k] = FallbackEntry(AllPoints[k[1] + 1], AllPoints[k[2] + 1])

\* a table with short rows and a null cell, read for four valid points
C3_Witness ==
    /\ matPc = "done" /\ AllValid /\ Len(AllPoints) = 4
    /\ osrm.kind = "ok"
    /\ \E k \in Keys(4) : Answered(k) /\ distance_matrix[k].is_osrm
    /\ \E k \in Keys(4) : ~Answered(k) /\ Cell(osrm.distances, k[1], k[2]) = Null
    /\ \E k \in Keys(4) : Cell(osrm.distances, k[1], k[2]) = Absent

\* the call failed as a whole
WholeFailure ==
    \/ osrm.kind \in {"exception", "status", "code"}
    \/ (osrm.kind = "ok" /\ BuildRaises(osrm, Len(AllPoints)))

\* C4: when the road-routing call fails as a whole the builder still ends
\* with the complete matrix, every entry tagged is_osrm = FALSE.
C4_FailureFallsBack ==
    (matPc \in {"done", "raised"} /\ WholeFailure) =>
        /\ matPc = "done"
        /\ DOMAIN distance_matrix = Keys(Len(AllPoints))
        /\ \A k \in DOMAIN distance_matrix : ~distance_matrix[k].is_osrm

\* a malformed payload (a null duration beside a distance) for three points
C4_Witness ==
    /\ matPc = "done" /\ osrm.kind = "ok" /\ WholeFailure
    /\ Len(AllPoints) >= 3
    /\ \A k \in DOMAIN distance_matrix : ~distance_matrix[k].is_osrm

RECURSIVE Concat(_)
Concat(ss) == IF ss = <<>> THEN <<>> ELSE Head(ss) \o Concat(Tail(ss))

RoutedDestinations == Concat([i \in DOMAIN routes |-> routes[i].destinations])

\* the routes together contain every input destination exactly once
PartitionHolds == IsPermutation(RoutedDestinations, destinations)

\* C2: whatever strategy was chosen, the routes returned by
\* _create_optimized_routes together contain every input destination
\* exactly once, for any fleet and any cargo.
C2_RoutesPartitionDestinations == splitPc = "done" => PartitionHolds

\* Outside capacity-based splitting the returned routes do partition the
\* destinations: the loss is confined to _create_capacity_based_routes.
PartitionOutsideCapacitySplitting ==
    (splitPc = "done" /\ strategy # "capacity_based_splitting") => PartitionHolds

RouteWeights == [i \in DOMAIN routes |-> TotalWeight(routes[i].destinations)]

RECURSIVE SeqSum(_)
SeqSum(ns) == IF ns = <<>> THEN 0 ELSE Head(ns) + SeqSum(Tail(ns))

\* the cargo outweighs the payload of the only vehicle
OverloadedSingleVehicle ==
    Len(vehicles) = 1 /\ TotalWeight(destinations) > vehicles[1].max_payload

\* C9: when the destinations' total weight exceeds the payload of the only
\* vehicle, no returned group weighs more than that payload and the groups'
\* weights sum exactly to the input total.
C9_OverloadSplitIntoGroups ==
    (splitPc = "done" /\ OverloadedSingleVehicle) =>
        /\ \A i \in DOMAIN routes : RouteWeights[i] <= vehicles[1].max_payload
        /\ SeqSum(RouteWeights) = TotalWeight(destinations)

\* one vehicle of 1000 kg, three destinations of 2500 kg in all: one route of
\* 1000 kg is returned and the other 1500 kg appear in no route
C9_Witness ==
    /\ splitPc = "done"
    /\ strategy = "capacity_based_splitting"
    /\ vehicles = <<Vehicle(1, 1000, 10)>>
    /\ destinations = <<SplitDestPool[5], SplitDestPool[3], SplitDestPool[4]>>
    /\ TotalWeight(destinations) = 2500
    /\ Len(routes) = 1
    /\ SeqSum(RouteWeights) = 1000

\* two vehicles, both loaded, and a destination left over for neither
C2_Witness ==
    /\ splitPc = "done"
    /\ strategy = "capacity_based_splitting"
    /\ Len(vehicles) = 2
    /\ Len(routes) = 2
    /\ Len(RoutedDestinations) < Len(destinations)
    /\ \A i \in DOMAIN routes : RouteWeights[i] <= MaxVehicleWeight(vehicles)

\* a clustered route too heavy for every vehicle was split in two
BalancedSplitReached ==
    /\ splitPc = "done" /\ strategy = "balanced_optimization"
    /\ \E i \in DOMAIN routes : routes[i].optimization_method = "capacity_split"

AiFinished == aiPc \in {"returned", "raised"}

LastResponse == aiAttempts[Len(aiAttempts)]

\* timeout, connection error, HTTP error, empty or malformed response
FailureResponse(resp) ==
    \/ resp.transport # "ok"
    \/ IsHttpError(resp.status)
    \/ resp.body \in {"no_candidates", "not_json", "empty_object"}

\* C5: when the AI call fails in any way, both entry points return a locally
\* made plan instead of raising.
C5_AiFailureFallsBack ==
    (AiFinished /\ aiAttempts # <<>> /\ FailureResponse(LastResponse)) =>
        (aiPc = "returned" /\ aiResult.kind \in {"fallback", "canned"})

\* the wizard's client wraps a timeout in UserError and the entry point
\* re-raises it
C5_Witness ==
    /\ aiEntry = "wizard" /\ aiPc = "raised"
    /\ Len(aiAttempts) = 1 /\ aiAttempts[1].transport = "timeout"

\* AiAnalystService.optimize_bulk_missions, for its part, never raises
ServiceNeverRaises == aiEntry = "service" => aiPc # "raised"

RateLimited(resp) == resp.transport = "ok" /\ resp.status = <<"4", "2", "9">>

\* C6: within one call at most two requests are sent; a second request is
\* sent exactly when the first one ended in HTTP 429; a failed retry ends the
\* call with an error.
C6_RetryOnceOnlyAfter429 ==
    /\ Len(aiAttempts) <= 2
    /\ Len(aiAttempts) = 2 => RateLimited(aiAttempts[1])
    /\ (AiFinished /\ aiAttempts # <<>> /\ RateLimited(aiAttempts[1])) => Len(aiAttempts) = 2
    /\ (AiFinished /\ Len(aiAttempts) = 2 /\ FailureResponse(aiAttempts[2]) /\ aiAttempts[2].body # "empty_object")
           => aiClient.kind = "user_error"

\* a 503 is retried because the API key in the URL of the error text
\* holds the characters 429
C6_Witness ==
    /\ Len(aiAttempts) = 2
    /\ aiAttempts[1].status = <<"5", "0", "3">>
    /\ Contains(aiIn.api_key, <<"4", "2", "9">>)

\* the other parts of C6, which the code keeps
RetryBounded ==
    /\ Len(aiAttempts) <= 2
    /\ (AiFinished /\ aiAttempts # <<>> /\ RateLimited(aiAttempts[1])) => Len(aiAttempts) = 2
    /\ Len(aiAttempts) = 2 => IsHttpError(aiAttempts[1].status)

\* C7: optimize_bulk_missions propagates a failure exactly when the input has
\* no source and no destination, or no vehicle; otherwise it returns a plan.
C7_FailureIffInputAbsent ==
    (aiEntry = "service" /\ AiFinished) => (aiPc = "raised" <=> InputRejected)

\* no vehicle: the ValueError is caught and a fallback plan is returned
C7_Witness ==
    /\ aiEntry = "service" /\ aiPc = "returned"
    /\ aiIn.has_sources /\ aiIn.has_destinations /\ ~aiIn.has_vehicles
    /\ aiAttempts = <<>> /\ aiResult.kind = "fallback"

\* the last answer parsed as JSON
ParsedAnswer ==
    /\ AiFinished /\ aiAttempts # <<>>
    /\ LastResponse.transport = "ok" /\ ~IsHttpError(LastResponse.status)
    /\ LastResponse.body \notin {"no_candidates", "not_json"}

SchemaViolated(v) == v.type # "object" \/ ~v.has_summary \/ ~v.has_missions

CostComponents ==
    IF costPc = "wizard_done"
    THEN {costOut.base_cost, costOut.fuel_cost, costOut.driver_cost,
          costOut.maintenance_cost, costOut.toll_cost, costOut.total_cost}
    ELSE {costOut.fuel_cost, costOut.driver_cost, costOut.maintenance_cost,
          costOut.toll_cost, costOut.insurance_cost, costOut.overhead_cost,
          costOut.total_cost}

\* the components of the spec's formula; calculate_transport_cost returns
\* no base component
FormulaSum ==
    (IF costPc = "wizard_done" THEN costOut.base_cost ELSE 0)
    + costOut.fuel_cost + costOut.driver_cost + costOut.maintenance_cost + costOut.toll_cost

\* C10 as stated: every component is non-negative and total_cost equals
\* base + fuel + driver + maintenance + toll, in both cost functions.
C10_TotalIsSumOfFive ==
    costPc \in {"wizard_done", "service_done"} =>
        /\ \A c \in CostComponents : c >= 0
        /\ costOut.total_cost = FormulaSum

\* C10 (amended): every component is non-negative; in _calculate_costs the
\* rounded total is within 0.03 of the sum of the five rounded components;
\* in calculate_transport_cost the total is the sum of fuel, driver,
\* maintenance, toll, insurance and overhead, the overhead being 15% of the
\* other five.
C10_TotalWithinRoundingOrWithOverhead ==
    /\ costPc \in {"wizard_done", "service_done"} => \A c \in CostComponents : c >= 0
    /\ costPc = "wizard_done" => Abs(costOut.total_cost - FormulaSum) <= 3
    /\ costPc = "service_done" =>
           /\ costOut.total_cost = FormulaSum + costOut.insurance_cost + costOut.overhead_cost
           /\ (FormulaSum + costOut.insurance_cost) % 100 = 0
           /\ costOut.overhead_cost =
                  ((FormulaSum + costOut.insurance_cost) \div 100) * OverheadPercentage

\* 0.1 km and 0.01 h at uneven rates: the rounded figures do not add up
C10_Witness ==
    /\ costPc = "wizard_done"
    /\ costIn.distance = 1 /\ costIn.duration = 1
    /\ costOut.total_cost # FormulaSum

NearestNeighborRoute == NNResult(nn, destinations)

\* C11: for a route of at least 4 destinations, the total distance of the
\* route returned by _two_opt_improvement (the matrix entries along source,
\* d1, ..., dn) is at most that of the nearest-neighbour route it was given.
C11_TwoOptNeverLonger ==
    (seqPc = "done" /\ Len(destinations) >= 4) =>
        RouteMetricsDistance(seqOut, destinations, distance_matrix, Len(sources))
            <= RouteMetricsDistance(NearestNeighborRoute, destinations, distance_matrix,
                                    Len(sources))

\* measured by _calculate_route_distance, the figure 2-opt itself compares,
\* the returned route is never longer
TwoOptOwnMeasureNeverLonger ==
    seqPc = "done" =>
        CalculateRouteDistance(seqOut, distance_matrix, Len(sources))
            <= CalculateRouteDistance(NearestNeighborRoute, distance_matrix, Len(sources))

\* 2-opt changed the route
TwoOptChangedRoute == seqPc = "done" /\ seqOut # NearestNeighborRoute

PairwiseDistinct(r) == \A i, j \in DOMAIN r : i # j => r[i] # r[j]

\* with no destination listed twice, 2-opt returns the route it was given
TwoOptKeepsDistinctRoute ==
    (seqPc = "done" /\ PairwiseDistinct(destinations)) => seqOut = NearestNeighborRoute

\* a destination listed twice and a matrix without the source's row: the
\* returned route is longer than the nearest-neighbour route
C11_Witness ==
    /\ seqPc = "done" /\ Len(destinations) = 4
    /\ ~PairwiseDistinct(destinations)
    /\ seqOut # NearestNeighborRoute
    /\ RouteMetricsDistance(NearestNeighborRoute, destinations, distance_matrix,
                            Len(sources)) = 74504
    /\ RouteMetricsDistance(seqOut, destinations, distance_matrix, Len(sources)) = 223512
    /\ RouteMetricsDistance(seqOut, destinations, distance_matrix, Len(sources))
           > RouteMetricsDistance(NearestNeighborRoute, destinations, distance_matrix,
                                  Len(sources))

\* the conditions of the decision tree, read off the inputs
SmallLoad ==
    /\ Len(destinations) <= 3
    /\ TotalWeight(destinations) * 10 <= MaxVehicleWeight(vehicles) * 8
    /\ TotalVolume(destinations) * 10 <= MaxVehicleVolume(vehicles) * 8

CloseTogether == GeographicalSpread(destinations) < 10

OverCapacity ==
    \/ TotalWeight(destinations) > MaxVehicleWeight(vehicles)
    \/ TotalVolume(destinations) > MaxVehicleVolume(vehicles)

SpreadOut == GeographicalSpread(destinations) > 20

FoundCall == assignPc # "start" /\ assign.found.available_vehicles # <<>>

Qualifying ==
    {v \in Range(assign.found.available_vehicles) :
        /\ v.max_payload >= assign.found.weight
        /\ v.cargo_volume >= assign.found.volume}

\* twice the distance of a vehicle's mean utilisation from 0.7, times
\* 10 * max_payload * cargo_volume * scale
FromSeventy(v, scale) ==
    scale * Abs(10 * (assign.found.weight * v.cargo_volume
                        + assign.found.volume * v.max_payload)
                    - 14 * v.max_payload * v.cargo_volume)

\* What _find_best_vehicle returns when it returns: the qualifying vehicle
\* closest to 0.7, or else a vehicle of the largest payload.
BestVehicleSelection ==
    (FoundCall /\ ~assign.found.raised) =>
        LET best == assign.found.result
        IN /\ best \in Range(assign.found.available_vehicles)
           /\ Qualifying # {} =>
                  /\ best \in Qualifying
                  /\ \A v \in Qualifying :
                         FromSeventy(best, v.max_payload * v.cargo_volume)
                             <= FromSeventy(v, best.max_payload * best.cargo_volume)
           /\ Qualifying = {} =>
                  \A v \in Range(assign.found.available_vehicles) :
                      v.max_payload <= best.max_payload

\* C13: called on a non-empty pool, _find_best_vehicle never fails, whatever
\* the capacities and the cargo (zero included), and returns the qualifying
\* vehicle whose mean utilisation is closest to 0.7, or the vehicle of the
\* largest payload when none qualifies.
C13_FindBestVehicleAlwaysReturns ==
    FoundCall => (~assign.found.raised /\ BestVehicleSelection)

\* a route without cargo meets a vehicle whose cargo_volume is 0
C13_Witness ==
    /\ assignPc = "find_raised"
    /\ assign.found.weight = 0 /\ assign.found.volume = 0
    /\ assign.found.available_vehicles = <<Vehicle(4, 20, 0)>>

\* a qualifying vehicle that is not the fullest one is chosen
BestVehicleNotFullest ==
    /\ FoundCall /\ assign.found.result = Vehicle(2, 40, 10)
    /\ Vehicle(1, 20, 10) \in Qualifying

\* Drivers are handed out in the order of the pool, one mission each
DriversFirstAvailable ==
    assignPc = "done" =>
        \A k \in DOMAIN assign.mission_assignments :
            assign.mission_assignments[k].assigned_driver =
                IF k <= Len(assignIn.drivers) THEN assignIn.drivers[k] ELSE NoDriver

\* C14: with a non-empty driver pool every mission of the assembler has a
\* driver, also when there are more routes than drivers.
C14_EveryMissionHasDriver ==
    (assignPc = "done" /\ assignIn.drivers # <<>>) =>
        \A k \in DOMAIN assign.mission_assignments :
            assign.mission_assignments[k].assigned_driver \in Range(assignIn.drivers)

\* three routes and two drivers: the third mission has no driver
C14_Witness ==
    /\ assignPc = "done"
    /\ Len(assignIn.drivers) = 2
    /\ Len(assign.mission_assignments) = 3
    /\ assign.mission_assignments[1].assigned_driver = 1
    /\ assign.mission_assignments[2].assigned_driver = 2
    /\ assign.mission_assignments[3].assigned_driver = NoDriver

\* the summary of p pickups and d deliveries, for the counts the model reaches
ExpectedSummary(p, d) ==
    LET pickups == <<"1 Pickup", "2 Pickups", "3 Pickups", "4 Pickups", "5 Pickups">>
        deliveries == <<"1 Delivery", "2 Deliveries", "3 Deliveries", "4 Deliveries",
                        "5 Deliveries">>
    IN CASE p > 0 /\ d > 0 -> pickups[p] \o " + " \o deliveries[d]
         [] p > 0 /\ d = 0 -> pickups[p]
         [] p = 0 /\ d > 0 -> deliveries[d]
         [] OTHER -> "No Destinations"

\* C17: after _compute_mission_type_summary the two counts are the numbers of
\* pickup and of delivery destinations, the summary lists the non-zero counts
\* joined by ' + ' (one pickup and one delivery: '1 Pickup + 1 Delivery') and
\* is 'No Destinations' for a mission without destinations.
C17_SummaryMatchesCounts ==
    summaryPc = "computed" =>
        LET p == CountOf("pickup", mission.destination_ids)
            d == CountOf("delivery", mission.destination_ids)
        IN /\ mission.pickup_count = p
           /\ mission.delivery_count = d
           /\ mission.mission_type_summary = ExpectedSummary(p, d)
           /\ (p = 1 /\ d = 1) => mission.mission_type_summary = "1 Pickup + 1 Delivery"
           /\ mission.destination_ids = <<>> =>
                  mission.mission_type_summary = "No Destinations"

\* the mission of test_mission_types, computed
C17_Witness ==
    /\ summaryPc = "computed"
    /\ mission.destination_ids = <<"pickup", "delivery">>
    /\ mission.pickup_count = 1 /\ mission.delivery_count = 1
    /\ mission.mission_type_summary = "1 Pickup + 1 Delivery"

\* the ended calls of cache_route for the key of call i
SameKey(i) ==
    {j \in DOMAIN cacheLog :
        GenerateRouteHash(cacheLog[j].waypoints) = GenerateRouteHash(cacheLog[i].waypoints)}

\* get_cached_route returns the distance and duration call i wanted to store
ReturnsWriteOf(i) ==
    LET cached_route == GetCachedRoute(route_cache, cacheLog[i].waypoints)
    IN /\ cached_route.cached
       /\ cached_route.distance = cacheLog[i].distance
       /\ cached_route.duration = cacheLog[i].duration

\* C15 as stated: of the calls that wrote for one key, the latest determines
\* what get_cached_route returns afterwards.
C15_LastWriteWins ==
    \A i \in DOMAIN cacheLog :
        (\A j \in SameKey(i) : j <= i) => ReturnsWriteOf(i)

\* C15: of the calls of cache_route for one key, the earliest creates the row
\* and determines what get_cached_route returns afterwards; every later call
\* finds the row or is rejected by the unique constraint, and changes nothing.
C15_FirstWriteWins ==
    \A i \in DOMAIN cacheLog :
        IF \A j \in SameKey(i) : i <= j
        THEN cacheLog[i].outcome = "created" /\ ReturnsWriteOf(i)
        ELSE cacheLog[i].outcome \in {"existing", "IntegrityError"}

\* two calls for one key with different results, the second one rejected
\* after both had searched: the row is the first call's
C15_Witness ==
    /\ Len(cacheLog) >= 2
    /\ 2 \in SameKey(1)
    /\ cacheLog[1].proc # cacheLog[2].proc
    /\ cacheLog[1].distance # cacheLog[2].distance
    /\ cacheLog[2].outcome = "IntegrityError"
    /\ ReturnsWriteOf(1) /\ ~ReturnsWriteOf(2)
    /\ \A p \in Computations : computations[p].pc = "done"

\* a later call that found the row: the sequential case
LaterWriteFindsRow ==
    /\ Len(cacheLog) >= 2
    /\ 2 \in SameKey(1)
    /\ cacheLog[1].distance # cacheLog[2].distance
    /\ cacheLog[2].outcome = "existing"
    /\ ReturnsWriteOf(1)

\* what a fresh computation for the waypoints, in their order, would give
FreshResults(waypoints) ==
    {<<r.distance, r.duration>> : r \in {OsrmRoute(waypoints), CreateFallbackRoute(waypoints)}}

\* C16: waypoint lists of one cache key have the same route distance and
\* duration, and a mission whose distance was taken from the cache has the
\* distance and duration a fresh computation for its waypoints would give.
C16_CacheHitEqualsFresh ==
    /\ \A p, q \in Computations :
           GenerateRouteHash(computations[p].waypoints)
               = GenerateRouteHash(computations[q].waypoints)
           => FreshResults(computations[p].waypoints) = FreshResults(computations[q].waypoints)
    /\ \A p \in Computations :
           (computations[p].pc = "done"
               /\ computations[p].distance_calculation_method = "cached")
           => <<computations[p].total_distance_km,
                computations[p].estimated_duration_minutes>>
                  \in FreshResults(computations[p].waypoints)

\* the same two destinations in the two orders: the second mission takes from
\* the cache the distance of the first mission's order
C16_Witness ==
    /\ computations[1].waypoints = <<SourcePoint, WaypointPool[1], WaypointPool[2]>>
    /\ computations[2].waypoints = <<SourcePoint, WaypointPool[2], WaypointPool[1]>>
    /\ computations[1].pc = "done" /\ computations[2].pc = "done"
    /\ computations[1].distance_calculation_method = "osrm"
    /\ computations[2].distance_calculation_method = "cached"
    /\ computations[1].total_distance_km = OsrmRoute(computations[1].waypoints).distance
    /\ computations[2].total_distance_km = computations[1].total_distance_km
    /\ computations[2].total_distance_km # OsrmRoute(computations[2].waypoints).distance
    /\ computations[2].total_distance_km
           # CreateFallbackRoute(computations[2].waypoints).distance

\* C18: when the loop of _nearest_neighbor_tsp ends with a route whose length
\* is not that of the input (the 20 iterations are used up and destinations
\* are still unvisited), the route is discarded and the destinations are
\* returned in their input order.
C18_LengthMismatchReturnsInput ==
    (seqPc = "two_opt" /\ Len(nn.route) # Len(destinations)) => opt.route = destinations

\* 21 destinations: 20 are visited, nearest first, and the input is returned
C18_Witness ==
    /\ seqPc = "two_opt"
    /\ destinations = LongDestinations
    /\ nn.iteration = IterationCap
    /\ Len(nn.route) = IterationCap
    /\ nn.route[1] = destinations[IterationCap + 1]
    /\ nn.unvisited = <<destinations[1]>>
    /\ opt.route = destinations

\* candidate k of the unvisited list has an entry in the matrix, looked up
\* from the current position as the loop looks it up
Reachable(k) ==
    LET o == OriginalIndex(nn.unvisited[k], destinations)
    IN o # NoIndex /\ <<nn.current_point_idx, Len(sources) + o>> \in DOMAIN distance_matrix

RECURSIVE IsSubsequence(_, _)

\* the entries of u occur in d in the same order
IsSubsequence(u, d) ==
    IF u = <<>> THEN TRUE
    ELSE IF d = <<>> THEN FALSE
    ELSE IF Head(u) = Head(d) THEN IsSubsequence(Tail(u), Tail(d))
    ELSE IsSubsequence(u, Tail(d))

SkipMissingThenAppendRest ==
    /\ (seqPc = "nearest_neighbor" /\ nn' # nn) =>
          IF \E k \in DOMAIN nn.unvisited : Reachable(k)
          THEN \E k \in DOMAIN nn.unvisited :
                  /\ Reachable(k)
                  /\ nn'.route = Append(nn.route, nn.unvisited[k])
                  /\ nn'.unvisited = RemoveAt(nn.unvisited, k)
          ELSE /\ nn'.route = nn.route \o nn.unvisited
               /\ IsSubsequence(nn.unvisited, destinations)
               /\ ~NNRunning(nn')
    /\ (seqPc = "nearest_neighbor" /\ seqPc' = "two_opt" /\ nn.broke) =>
          opt'.route = nn.route

MatrixIndices(dest) ==
    {Len(sources) + i - 1 : i \in {j \in DOMAIN destinations : destinations[j] = dest}}

\* the matrix indices of the current position: the source before the first
\* stop, then the stop appended last
CurrentIndices ==
    IF nn.route = <<>> THEN {0} ELSE MatrixIndices(nn.route[Len(nn.route)])

\* the matrix distances from the current position to dest
DistancesTo(dest) ==
    {distance_matrix[k].distance_m :
        k \in {c \in CurrentIndices \X MatrixIndices(dest) : c \in DOMAIN distance_matrix}}

\* a step of the loop that appended a destination
AppendedNearest ==
    seqPc = "nearest_neighbor" /\ nn' # nn /\ ~nn'.broke

NearestAmongUnvisited ==
    AppendedNearest =>
        \E k \in DOMAIN nn.unvisited :
            /\ nn'.route = Append(nn.route, nn.unvisited[k])
            /\ \E x \in DistancesTo(nn.unvisited[k]) :
                   /\ \A j \in DOMAIN nn.unvisited :
                          \A y \in DistancesTo(nn.unvisited[j]) : x <= y
                   /\ \A j \in 1..(k - 1) :
                          \A y \in DistancesTo(nn.unvisited[j]) : x < y

\* C20: the destination a step appends has the least matrix distance from
\* the current position among the unvisited ones, the first in input order
\* among equals; from (0, 0) with (0, 1), (1, 1), (1, 0) the first stop is
\* (0, 1).
C20_NearestFirstOfEquals ==
    [][/\ NearestAmongUnvisited
       /\ (/\ AppendedNearest /\ destinations = TieDestinations /\ nn.route = <<>>
           /\ \A j \in 1..3 : <<0, j>> \in DOMAIN distance_matrix)
              => nn'.route = <<TieDestinations[1]>>]_vars

\* no destination of the list is taken for another one by _destinations_match
NoTwoMatch ==
    \A i, j \in DOMAIN destinations :
        i # j => ~DestinationsMatch(destinations[i], destinations[j])

\* The step appends the nearest unvisited destination, first of equals, when
\* no two destinations of the list match.
NearestWhenNoTwoMatch == [][NoTwoMatch => NearestAmongUnvisited]_vars

\* two destinations share the id 1: the first stop is the farther one
C20_Witness ==
    /\ sources = <<Src(101, "S1", 10, 10)>>
    /\ destinations = <<DestPool[4], DestPool[1]>>
    /\ Keys(3) \subseteq DOMAIN distance_matrix
    /\ nn.route = <<DestPool[4]>>
    /\ distance_matrix[<<0, 2>>].distance_m < distance_matrix[<<0, 1>>].distance_m

\* the example of C20: equal distances, the first of the input is taken
TieBrokenByInputOrder ==
    /\ destinations = TieDestinations
    /\ Keys(4) \subseteq DOMAIN distance_matrix
    /\ distance_matrix[<<0, 1>>].distance_m = distance_matrix[<<0, 3>>].distance_m
    /\ Len(nn.route) = 1 /\ nn.route[1] = TieDestinations[1]

\* C26: for pairwise distinct destinations _two_opt_improvement returns the
\* route in the order it received it: no candidate reversal has a smaller
\* computed distance, so none is accepted at any pass.
C26_TwoOptReturnsInputOrder ==
    (seqPc \in {"two_opt", "done"} /\ PairwiseDistinct(destinations)) =>
        /\ opt.best_route = NearestNeighborRoute
        /\ seqPc = "done" => seqOut = NearestNeighborRoute
        /\ \A i \in 1..(Len(opt.route) - 3) : \A j \in (i + 2)..(Len(opt.route) - 1) :
               CalculateRouteDistance(TwoOptCandidate(opt.route, i, j),
                                      distance_matrix, Len(sources))
                   = CalculateRouteDistance(opt.route, distance_matrix, Len(sources))

\* four distinct destinations and a complete matrix: one pass was made and the
\* route is returned as received, although a reversal is shorter along the
\* matrix
C26_Witness ==
    /\ seqPc = "done"
    /\ Len(destinations) = 4
    /\ PairwiseDistinct(destinations)
    /\ Keys(Len(sources) + 4) \subseteq DOMAIN distance_matrix
    /\ opt.iterations = 1
    /\ seqOut = NearestNeighborRoute
    /\ \E i \in 1..1 : \E j \in 3..3 :
           RouteMetricsDistance(TwoOptCandidate(seqOut, i, j), destinations,
                                distance_matrix, Len(sources))
               < RouteMetricsDistance(seqOut, destinations, distance_matrix, Len(sources))

\* the points of the request that lack a coordinate
ExcludedPoints == {i \in 0..(Len(AllPoints) - 1) : ~HasCoordinates(AllPoints[i + 1])}

\* C23: a point whose latitude or longitude is missing or zero takes no part
\* in the matrix: no entry of the matrix returned has it as an endpoint, and
\* the builder returns a matrix all the same.
C23_ExcludedPointsHaveNoEntry ==
    /\ matPc # "raised"
    /\ matPc = "done" =>
          \A k \in DOMAIN distance_matrix :
              k[1] \notin ExcludedPoints /\ k[2] \notin ExcludedPoints

\* a destination without coordinates between valid points, the service
\* answering: the matrix has entries from and to it, some tagged road-routed
C23_Witness ==
    /\ matPc = "done" /\ osrm.kind = "ok"
    /\ Len(sources) = 1 /\ Len(destinations) = 3
    /\ ExcludedPoints = {1}
    /\ <<0, 1>> \in DOMAIN distance_matrix /\ <<1, 2>> \in DOMAIN distance_matrix
    /\ distance_matrix[<<0, 1>>].is_osrm

\* the answer of the service was used for the matrix
AnswerUsed == matPc = "done" /\ osrm.kind = "ok" /\ OsrmUsable(AllPoints, osrm)

\* entry k carries what the service returns for its two points themselves
\* (duration 0 where the answer has no duration for the pair)
RoadEntryOfItsPoints(k) ==
    /\ distance_matrix[k].distance_m = RoadDistance(AllPoints[k[1] + 1], AllPoints[k[2] + 1])
    /\ \/ distance_matrix[k].duration_s = RoadDuration(AllPoints[k[1] + 1], AllPoints[k[2] + 1])
       \/ /\ Cell(osrm.durations, k[1], k[2]) = Absent
          /\ distance_matrix[k].duration_s = 0

\* entry k carries the Haversine distance of its points at 50 km/h
HaversineEntryOfItsPoints(k) ==
    LET p1 == AllPoints[k[1] + 1]
        p2 == AllPoints[k[2] + 1]
        d == HaversineDistance(p1.latitude, p1.longitude, p2.latitude, p2.longitude)
    IN /\ distance_matrix[k].distance_m = d
       /\ distance_matrix[k].duration_s = (d * 72) \div 1000

EntriesOfTheirPoints ==
    \A k \in DOMAIN distance_matrix :
        IF distance_matrix[k].is_osrm
        THEN RoadEntryOfItsPoints(k)
        ELSE HaversineEntryOfItsPoints(k)

\* C24: on a successful answer every entry tagged road-routed carries the
\* distance and duration the service returned for its own two points, also
\* when points were left out of the request, and every other entry carries
\* the Haversine distance with duration = distance / 50.
C24_EntriesOfTheirPoints == AnswerUsed => EntriesOfTheirPoints

\* With all points in the request the entries are those of their points.
EntriesOfTheirPointsWhenAllValid == (AnswerUsed /\ AllValid) => EntriesOfTheirPoints

\* source, a destination without coordinates, two valid destinations: the
\* entry from the source to the destination without coordinates is tagged
\* road-routed and carries the road distance from the source to the next one
C24_Witness ==
    /\ AnswerUsed
    /\ Len(sources) = 1 /\ Len(destinations) = 3
    /\ ExcludedPoints = {1}
    /\ distance_matrix[<<0, 1>>].is_osrm
    /\ distance_matrix[<<0, 1>>].distance_m = RoadDistance(AllPoints[1], AllPoints[3])
    /\ ~RoadEntryOfItsPoints(<<0, 1>>)

\* the road service answered the request of computation p: p called
\* cache_route with the route of the service
ServiceSucceeded(p) ==
    \E i \in DOMAIN cacheLog :
        /\ cacheLog[i].proc = p
        /\ cacheLog[i].distance = OsrmRoute(computations[p].waypoints).distance
        /\ cacheLog[i].distance # CreateFallbackRoute(computations[p].waypoints).distance

\* computation p missed the cache and went on to cache_route
MissedCache(p) == \E i \in DOMAIN cacheLog : cacheLog[i].proc = p

OneRowPerHash ==
    \A i, j \in DOMAIN route_cache :
        route_cache[i].route_hash = route_cache[j].route_hash => i = j

\* C30: whatever the interleaving of two computations that miss the cache for
\* one key, the cache has at most one row per hash, both computations end
\* with a route (road-routed or straight-line), and a computation whose road
\* service call succeeded ends with the road-routed result.
C30_ConcurrentMissesComplete ==
    /\ OneRowPerHash
    /\ \A p \in Computations :
           (computations[p].pc = "done" /\ MissedCache(p)) =>
               /\ <<computations[p].total_distance_km,
                    computations[p].estimated_duration_minutes>>
                      \in FreshResults(computations[p].waypoints)
               /\ ServiceSucceeded(p) =>
                      /\ computations[p].distance_calculation_method = "osrm"
                      /\ computations[p].total_distance_km
                             = OsrmRoute(computations[p].waypoints).distance

\* two computations of one key, both answered by the service, both past the
\* search of cache_route before either creates: the second create is
\* rejected and that computation ends with the straight-line route
C30_Witness ==
    /\ computations[1].waypoints = computations[2].waypoints
    /\ computations[1].pc = "done" /\ computations[2].pc = "done"
    /\ ServiceSucceeded(1) /\ ServiceSucceeded(2)
    /\ OneRowPerHash /\ Len(route_cache) = 1
    /\ computations[1].distance_calculation_method = "osrm"
    /\ computations[2].distance_calculation_method = "haversine"
    /\ computations[2].total_distance_km
           = CreateFallbackRoute(computations[2].waypoints).distance

\* a rejected create after a failed request: the computation ends without a
\* route, distance 0
RejectedFallbackEndsWithoutRoute ==
    /\ computations[1].waypoints = computations[2].waypoints
    /\ computations[1].pc = "done" /\ computations[2].pc = "done"
    /\ MissedCache(2) /\ ~ServiceSucceeded(2)
    /\ computations[2].total_distance_km = 0
    /\ computations[1].total_distance_km > 0

\* what a computation made now for the waypoints gives: the route of the
\* service, the straight-line route, the row another computation has written
\* in the meantime, or nothing at all
NewComputationResults(ws) ==
    IF Len(ws) < 2 THEN {<<0, "osrm">>}
    ELSE {<<OsrmRoute(ws).distance, "osrm">>,
          <<CreateFallbackRoute(ws).distance, "haversine">>,
          <<0, "osrm">>}
         \cup {<<d, "cached">> : d \in {OsrmRoute(ws).distance, CreateFallbackRoute(ws).distance}}

\* C25: when action_recalculate_distance has run its computation, the
\* distance and the method of the mission are those of a new computation,
\* whatever distance and method the mission had before.
C25_RecalculationIsFresh ==
    \A p \in Computations :
        (computations[p].pc = "done" /\ computations[p].recalculations > 0) =>
            <<computations[p].total_distance_km,
              computations[p].distance_calculation_method>>
                \in NewComputationResults(computations[p].waypoints)

\* the same for a mission whose distance was not a positive 'osrm' one
RecalculationIsFreshUnlessOsrm ==
    \A p \in Computations :
        (/\ computations[p].pc = "done" /\ computations[p].recalculations > 0
         /\ ~(computations[p].old_method = "osrm" /\ computations[p].old_distance > 0)) =>
            <<computations[p].total_distance_km,
              computations[p].distance_calculation_method>>
                \in NewComputationResults(computations[p].waypoints)

\* the call removes the cache entry of the mission's waypoints
RecalculationUnlinks ==
    [][\A p \in Computations :
          (ActionRecalculateDistance(p) /\ Len(computations[p].waypoints) >= 2) =>
              Search(route_cache', GenerateRouteHash(computations[p].waypoints)) = {}]_vars

\* a distance the widget has set, kept by the recalculation
C25_Witness ==
    /\ computations[1].pc = "done" /\ computations[1].recalculations = 1
    /\ Len(computations[1].waypoints) = 2
    /\ computations[1].old_distance = 5000 /\ computations[1].old_method = "osrm"
    /\ computations[1].total_distance_km = 5000
    /\ computations[1].distance_calculation_method = "osrm"
    /\ MissedCache(1) = FALSE

\* the second of two recalculations keeps the road distance of the first
\* and leaves the cache without the entry it removed
SecondRecalculationSkips ==
    /\ computations[1].pc = "done" /\ computations[1].recalculations = 2
    /\ Len(computations[1].waypoints) = 2
    /\ computations[1].old_distance = OsrmRoute(computations[1].waypoints).distance
    /\ computations[1].total_distance_km = computations[1].old_distance
    /\ Cardinality({i \in DOMAIN cacheLog : cacheLog[i].proc = 1}) = 1
    /\ Search(route_cache, GenerateRouteHash(computations[1].waypoints)) = {}

\* the index of the k-th point of a route (0 the source) in sources + destinations
AbsoluteIndex(route, k) ==
    IF k = 0 THEN IndexOf(sources, route.source) - 1
    ELSE Len(sources) + IndexOf(destinations, route.destinations[k]) - 1

\* the sum of a field of the matrix entries along source, d1, ..., dn
AlongRoute(route, field) ==
    LET leg(k) == distance_matrix[<<AbsoluteIndex(route, k - 1), AbsoluteIndex(route, k)>>][field]
        sum[k \in 0..Len(route.destinations)] == IF k = 0 THEN 0 ELSE sum[k - 1] + leg(k)
    IN sum[Len(route.destinations)]

MetricsAlongRoute(route) ==
    /\ route.total_distance = AlongRoute(route, "distance_m")
    /\ route.total_duration = AlongRoute(route, "duration_s")

\* C21: the total_distance and total_duration of every route the splitter
\* returns are the sums of the matrix entries along its source and its stops
\* in order, each point taken at its index in sources + destinations.
C21_MetricsAlongRoute ==
    splitPc = "done" => \A i \in DOMAIN routes : MetricsAlongRoute(routes[i])

\* a route over all the destinations from the first source has these sums
MetricsAlongSingleRoute ==
    (splitPc = "done" /\ strategy = "single_optimized_route") =>
        \A i \in DOMAIN routes : MetricsAlongRoute(routes[i])

\* a route over the destinations from the second on: its stops are measured
\* at the entries of the first destinations of the list
C21_Witness ==
    /\ splitPc = "done"
    /\ \E i \in DOMAIN routes :
           /\ Len(routes[i].destinations) = 1
           /\ routes[i].source = sources[1]
           /\ \A k \in DOMAIN routes[i].destinations :
                  IndexOf(destinations, routes[i].destinations[k]) > 1
           /\ routes[i].total_distance # AlongRoute(routes[i], "distance_m")
           /\ routes[i].total_distance =
                  distance_matrix[<<0, Len(sources)>>].distance_m

\* a route from the second source is measured from the first source
MeasuredFromFirstSource ==
    /\ splitPc = "done" /\ Len(sources) >= 2
    /\ \E i \in DOMAIN routes :
           /\ routes[i].source = sources[2]
           /\ routes[i].destinations = <<destinations[1]>>
           /\ routes[i].total_distance = distance_matrix[<<0, Len(sources)>>].distance_m
           /\ routes[i].total_distance # distance_matrix[<<1, Len(sources)>>].distance_m

\* the text of the answer without fences, cut to its outer braces, without
\* trailing commas
Repaired(text) == RemoveTrailingCommas(ExtractJsonBoundaries(StripMarkdown(text)))

DeclaredFailure == aiPc = "JSONDecodeError" \/ aiResult.kind = "simple_json_response"

RequestLocations(points) ==
    {PlanLocation(points[i].id, points[i].name, points[i].latitude, points[i].longitude) :
        i \in DOMAIN points}

\* failure is declared only after the repaired text and its fixed form have
\* both failed to load, and a text whose repaired form loads gives the plan
\* of the service
RepairsBeforeFailure ==
    /\ DeclaredFailure =>
           /\ Len(aiClient.loaded) = 2
           /\ aiClient.loaded[1] = Repaired(aiIn.text) /\ ~Loads(aiClient.loaded[1])
           /\ aiClient.loaded[2] = NoText
    /\ (aiPc = "returned" /\ Loads(Repaired(aiIn.text))) => aiResult = ParsedPlan

\* C22: failure is declared only after the fences are stripped and the
\* repairs applied and the text still does not parse, and the plan returned
\* after a declared failure contains only sources and destinations of the
\* request.
C22_FallbackPlanOfRequest ==
    /\ RepairsBeforeFailure
    /\ (aiPc = "returned" /\ DeclaredFailure) =>
           /\ aiResult.sources \subseteq RequestLocations(sources)
           /\ aiResult.destinations \subseteq RequestLocations(destinations)

\* an object cut short inside a fenced block: no repair makes it load, and
\* the plan returned has a destination the request does not have
C22_Witness ==
    /\ aiPc = "returned" /\ DeclaredFailure
    /\ aiIn.text = <<"fence_json", "{", "m", ",", "m">>
    /\ aiClient.loaded = << <<"{", "m", ",", "m">>, NoText >>
    /\ PlanLocation(1, "Default Destination", 0, 0) \in aiResult.destinations
    /\ PlanLocation(1, "Default Destination", 0, 0) \notin RequestLocations(destinations)

\* a fenced object with a trailing comma is repaired and parsed
RepairedAndParsed ==
    /\ aiPc = "returned"
    /\ aiIn.text = <<"fence_json", "{", "m", ",", "}", "fence">>
    /\ aiClient.loaded = << <<"{", "m", "}">> >>
    /\ aiResult = ParsedPlan

\* an unquoted key is fixed by the second attempt
FixedAndParsed ==
    /\ aiPc = "returned"
    /\ aiIn.text = <<"{", "u", "}">>
    /\ aiClient.loaded = << <<"{", "u", "}">>, <<"{", "m", "}">> >>
    /\ aiResult = ParsedPlan

\* the places (mission, position) of a destination in the plan
PlacesInPlan(dest) ==
    {<<k, idx>> \in (DOMAIN assign.optimized_missions) \X (1..Len(destinations)) :
        /\ idx \in DOMAIN assign.optimized_missions[k].destinations
        /\ assign.optimized_missions[k].destinations[idx].destination_id = dest.id}

\* C27: in the plan that _enhanced_fallback_optimization returns every
\* destination of the input is in exactly one mission.
C27_EveryDestinationInOneMission ==
    assignPc = "returned" =>
        \A k \in DOMAIN destinations : Cardinality(PlacesInPlan(destinations[k])) = 1

\* no destination is in two missions, and every destination is in one when
\* there are at most three per source that has a vehicle
NoDestinationTwice ==
    assignPc = "returned" =>
        /\ \A k \in DOMAIN destinations : Cardinality(PlacesInPlan(destinations[k])) <= 1
        /\ Len(destinations) <= SliceSize * Len(LoopSources(sources, assignIn.available_vehicles))
               => \A k \in DOMAIN destinations : PlacesInPlan(destinations[k]) # {}

\* one source, four destinations, a vehicle and a driver: the plan has one
\* mission of three destinations and the fourth is in none
C27_Witness ==
    /\ assignPc = "returned"
    /\ Len(sources) = 1 /\ Len(destinations) = 4
    /\ Len(assignIn.available_vehicles) >= 1 /\ Len(assignIn.available_drivers) >= 1
    /\ Len(assign.optimized_missions) = 1
    /\ Len(assign.optimized_missions[1].destinations) = 3
    /\ PlacesInPlan(destinations[4]) = {}

OthersUnchanged ==
    \A d \in DOMAIN mission.table :
        mission.table[d].mission_id # Self => mission.table[d] = mission.before[d]

SequencesInOrder ==
    LET own == DestinationsOf(mission.table, Self)
    IN  /\ \A d, e \in own : mission.table[d].sequence = mission.table[e].sequence => d = e
        /\ \A d \in own : mission.table[d].sequence \in 1..Cardinality(own)

\* C28: action_optimize_route changes the sequence of destinations of its own
\* mission only; after it succeeds their sequences are pairwise distinct
\* values of 1..n, whatever ids optimized_sequence has; and when it raises no
\* sequence has changed.
C28_OwnSequencesOnly ==
    /\ summaryPc = "done" => (OthersUnchanged /\ SequencesInOrder)
    /\ summaryPc = "raised" => mission.table = mission.before

\* when it raises no sequence has changed, and a list that has every id of
\* the mission once and no other id gives the sequences 1..n
RaiseOrPermutation ==
    /\ summaryPc = "raised" => mission.table = mission.before
    /\ (/\ summaryPc = "done"
        /\ Range(mission.optimized_ids) = DestinationsOf(mission.table, Self)
        /\ Len(mission.optimized_ids) = Cardinality(DestinationsOf(mission.table, Self)))
           => (OthersUnchanged /\ SequencesInOrder)

\* mission 1 has the destinations 1 and 2, mission 2 has 3; the list [3, 1]
\* moves the destination of mission 2 and leaves 1 and 2 with one sequence
C28_Witness ==
    /\ summaryPc = "done"
    /\ mission.optimized_ids = <<3, 1>>
    /\ DestinationsOf(mission.table, Self) = {1, 2}
    /\ mission.before[3].sequence = 1 /\ mission.before[1].sequence = 1
    /\ mission.table[1].sequence = 2 /\ mission.table[2].sequence = 2
    /\ mission.before[2].sequence = 2
    /\ ~SequencesInOrder

\* a list that ends with the id of a destination of mission 2: that
\* destination gets the sequence 3
OtherMissionMoved ==
    /\ summaryPc = "done"
    /\ mission.optimized_ids = <<1, 2, 3>>
    /\ DestinationsOf(mission.table, Self) = {1, 2}
    /\ mission.before[3].sequence = 1 /\ mission.table[3].sequence = 3
    /\ SequencesInOrder /\ ~OthersUnchanged

\* an id without record: the writes made before it are undone
RolledBack ==
    /\ summaryPc = "raised"
    /\ mission.optimized_ids = <<2, 1, MissingId>>
    /\ mission.written = 2
    /\ mission.table = mission.before

CallEnded == assignPc \in {"returned", "raised"}

EveryMissionComplete ==
    \A k \in DOMAIN assign.missions :
        assign.missions[k].destinations = missions_data[assign.missions[k].entry]

ClearedOnlyAfterCreation ==
    ~assign.ai_optimization_result => assign.created_missions # <<>>

\* C29: every mission record that exists after create_missions_from_ai_results
\* has all the destinations of its plan entry, and the stored result is
\* cleared only when at least one mission was created.
C29_MissionsComplete ==
    /\ CallEnded => EveryMissionComplete
    /\ ClearedOnlyAfterCreation

\* when no destination of the plan is rejected every mission is complete
CompleteWhenNothingRejected ==
    /\ ClearedOnlyAfterCreation
    /\ (CallEnded /\ \A e \in DOMAIN missions_data : \A k \in DOMAIN missions_data[e] :
                         ~CheckFutureTimeRaises(missions_data[e][k]))
           => EveryMissionComplete
    /\ (assignPc = "raised") => assign.missions = <<>>

\* a plan of two entries, the second destination of the second entry with an
\* arrival time in the past: the call returns, and the second mission exists
\* with one destination of two
C29_Witness ==
    /\ assignPc = "returned"
    /\ missions_data = << <<"future">>, <<"future", "past">> >>
    /\ Len(assign.missions) = 2
    /\ assign.created_missions = <<1>>
    /\ assign.missions[2].destinations = <<"future">>
    /\ ~assign.ai_optimization_result

====

